---- MODULE Spec2Model ----
(***************************************************************************)
(* Dub siren: control surface (GPIOController), audio engine (AudioEngine) *)
(* , sample player (SamplePlayer) and sink driver (AudioOutput).           *)
(*                                                                         *)
(* Numbers.  Fractional parameters are held in thousandths (0.7 is 700,    *)
(* 0.02 is 20, 0.001 is 1); filter frequencies are in Hz.  Float rounding  *)
(* of the parameter arithmetic is not modelled.                            *)
(***************************************************************************)
EXTENDS Integers, Sequences, FiniteSets, TLC

\* ------------------------------------------------------------------------
\* Bounds of the model (not program constants)
\* ------------------------------------------------------------------------
\* Encoder ticks delivered in one run.
MaxTicks == 4
\* Encoder ticks delivered while GPIOController::start is still executing.
MaxStartTicks == 1
\* process() calls begun in one run of the engine specification.
MaxBlocks == 2
\* Control-thread operations on the engine in one run.
MaxCtlOps == 3
\* Frames per block in the engine specification.
BlockFrames == 2

\* ------------------------------------------------------------------------
\* Common helpers
\* ------------------------------------------------------------------------
clamp(x, lo, hi) == IF x < lo THEN lo ELSE IF x > hi THEN hi ELSE x

\* C++ integer remainder: truncates toward zero, sign follows the dividend.
CRem(a, b) == IF a >= 0 THEN a % b ELSE -((-a) % b)

\* ------------------------------------------------------------------------
\* Control surface: GPIOController
\* ------------------------------------------------------------------------
Encoders == 0..4

ParamFields ==
    {"volume", "filterFreq", "filterRes", "delayFeedback", "reverbMix",
     "release", "delayTime", "reverbSize", "oscWaveform", "lfoWaveform"}

\* struct Parameters with its default member initialisers.
ParametersDefault ==
    [volume |-> 700, filterFreq |-> 2000, filterRes |-> 1000,
     delayFeedback |-> 500, reverbMix |-> 350,
     release |-> 500, delayTime |-> 200, reverbSize |-> 500,
     oscWaveform |-> 0, lfoWaveform |-> 0]

\* bankAParams[] / bankBParams[] of handleEncoder, as Parameters fields.
bankAParams == <<"volume", "filterFreq", "filterRes", "delayFeedback", "reverbMix">>
bankBParams == <<"release", "delayTime", "reverbSize", "oscWaveform", "lfoWaveform">>

\* Mutant: the bank is ignored, every tick goes to the Bank A parameter.
paramName_IgnoresBank(bank, encoderIndex) == bankAParams[encoderIndex + 1]

\* Mutant: encoder 1 in Bank B is routed to encoder 0's Bank A field.
paramName_SharedField(bank, encoderIndex) ==
    IF bank = "A" THEN bankAParams[encoderIndex + 1]
    ELSE IF encoderIndex = 1 THEN bankAParams[1]
    ELSE bankBParams[encoderIndex + 1]

paramName(bank, encoderIndex) ==
    IF bank = "A" THEN bankAParams[encoderIndex + 1] ELSE bankBParams[encoderIndex + 1]

\* The branch of handleEncoder taken for a field: the new value of
\* params.<field> after one tick in the given direction.
TickValue(field, old, direction) ==
    CASE field = "volume"        -> clamp(old + 20 * direction, 0, 1000)
      [] field = "filterFreq"    -> clamp(old + 50 * direction, 20, 20000)
      [] field = "filterRes"     -> clamp(old + 20 * direction, 0, 950)
      [] field = "delayFeedback" -> clamp(old + 20 * direction, 0, 950)
      [] field = "reverbMix"     -> clamp(old + 20 * direction, 0, 1000)
      [] field = "release"       -> clamp(old + 100 * direction, 10, 5000)
      [] field = "delayTime"     -> clamp(old + 50 * direction, 1, 2000)
      [] field = "reverbSize"    -> clamp(old + 20 * direction, 0, 1000)
      [] field = "oscWaveform"   -> CRem(old + direction + 4, 4)
      [] field = "lfoWaveform"   -> CRem(old + direction + 4, 4)

\* The engine-side value each Parameters field is written to.
EngineField(field) ==
    CASE field = "volume"        -> "volume"
      [] field = "filterFreq"    -> "filterCutoff"
      [] field = "filterRes"     -> "filterResonance"
      [] field = "delayFeedback" -> "delayFeedback"
      [] field = "reverbMix"     -> "reverbDryWet"
      [] field = "release"       -> "releaseTime"
      [] field = "delayTime"     -> "delayTime"
      [] field = "reverbSize"    -> "reverbSize"
      [] field = "oscWaveform"   -> "oscWaveform"
      [] field = "lfoWaveform"   -> "lfoWaveform"

\* ------------------------------------------------------------------------
\* Audio engine: parameter setters (value stored for a written value)
\* ------------------------------------------------------------------------
\* LowPassFilter::setCutoff clamps to [20, 0.9 * SR / 2] (SR = 48000).
FilterSetCutoff(freq) == clamp(freq, 20, 21600)

\* LowPassFilter::setResonance clamps to [0, 0.95].
FilterSetResonance(res) == clamp(res, 0, 950)

\* DelayEffect::setFeedback clamps to [0, 0.95].
DelaySetFeedback(g) == clamp(g, 0, 950)

\* DelayEffect::setDelayTime clamps to [0.001, 2.0].
DelaySetDelayTime(t) == clamp(t, 1, 2000)

\* ReverbEffect::setDryWet and ReverbEffect::setSize clamp to [0, 1].
ReverbSetDryWet(mix) == clamp(mix, 0, 1000)
ReverbSetSize(s) == clamp(s, 0, 1000)

\* Mutant: the volume is stored as given.
setVolume_NoClamp(e, vol) == [e EXCEPT !.volume = vol]

\* AudioEngine::setVolume.
setVolume(e, vol) == [e EXCEPT !.volume = clamp(vol, 0, 1000)]

\* AudioEngine::setWaveform(int) / setLfoWaveform(int): static_cast<Waveform>(index % 4).
setWaveform(e, index) == [e EXCEPT !.oscWaveform = CRem(index, 4)]
setLfoWaveform(e, index) == [e EXCEPT !.lfoWaveform = CRem(index, 4)]

setFilterCutoff(e, freq) == [e EXCEPT !.filterCutoff = FilterSetCutoff(freq)]
setFilterResonance(e, res) == [e EXCEPT !.filterResonance = FilterSetResonance(res)]
setDelayFeedback(e, g) == [e EXCEPT !.delayFeedback = DelaySetFeedback(g)]
setReverbMix(e, mix) == [e EXCEPT !.reverbDryWet = ReverbSetDryWet(mix)]
setReleaseTime(e, seconds) == [e EXCEPT !.releaseTime = seconds]
setDelayTime(e, seconds) == [e EXCEPT !.delayTime = DelaySetDelayTime(seconds)]
setReverbSize(e, size) == [e EXCEPT !.reverbSize = ReverbSetSize(size)]

\* The engine setter that the handleEncoder branch of a field calls.
EngineSetterOf(field) ==
    CASE field = "volume"        -> "setVolume"
      [] field = "filterFreq"    -> "setFilterCutoff"
      [] field = "filterRes"     -> "setFilterResonance"
      [] field = "delayFeedback" -> "setDelayFeedback"
      [] field = "reverbMix"     -> "setReverbMix"
      [] field = "release"       -> "setReleaseTime"
      [] field = "delayTime"     -> "setDelayTime"
      [] field = "reverbSize"    -> "setReverbSize"
      [] field = "oscWaveform"   -> "setWaveform"
      [] field = "lfoWaveform"   -> "setLfoWaveform"

\* Dispatch of a setter by name.
CallSetter(e, setter, v) ==
    CASE setter = "setVolume"          -> setVolume(e, v)
      [] setter = "setFilterCutoff"    -> setFilterCutoff(e, v)
      [] setter = "setFilterResonance" -> setFilterResonance(e, v)
      [] setter = "setDelayFeedback"   -> setDelayFeedback(e, v)
      [] setter = "setReverbMix"       -> setReverbMix(e, v)
      [] setter = "setReleaseTime"     -> setReleaseTime(e, v)
      [] setter = "setDelayTime"       -> setDelayTime(e, v)
      [] setter = "setReverbSize"      -> setReverbSize(e, v)
      [] setter = "setWaveform"        -> setWaveform(e, v)
      [] setter = "setLfoWaveform"     -> setLfoWaveform(e, v)

\* The engine's parameter values after AudioEngine's constructor.
EngineDefault ==
    [volume |-> 700, filterCutoff |-> 2000, filterResonance |-> 0,
     delayFeedback |-> 500, reverbDryWet |-> 350, releaseTime |-> 500,
     delayTime |-> 250, reverbSize |-> 500, oscWaveform |-> 0, lfoWaveform |-> 0]

\* "Apply initial parameters" of GPIOController::start, in call order.
StartApplyOrder ==
    <<"volume", "filterFreq", "filterRes", "delayFeedback", "reverbMix",
      "release", "delayTime", "reverbSize">>

VARIABLES
    params,         \* GPIOController::params
    currentBank,    \* GPIOController::currentBank
    shiftPressed,   \* GPIOController::shiftPressed
    ctlRunning,     \* GPIOController::running
    startPc,        \* position of the thread inside GPIOController::start
    startArg,       \* argument evaluated for the setter start() is about to call
    encodersUp,     \* encoders[0..4] created, their poll threads running
    buttonsUp,      \* buttons[0..3] created, their poll threads running
    eng,            \* parameter values held by the engine
    ticks,          \* number of encoder ticks delivered so far
    lastShiftEvent, \* history: the most recent shift event
    prevShiftEvent, \* history: the shift event before the most recent one
    lastTick        \* history: <<encoderIndex, direction>> of the most recent tick

\* State of the audio engine's DSP chain and of the thread inside process().
VARIABLES
    procPc,         \* position of the audio thread inside AudioEngine::process
    baseCutoff,     \* process(): local baseCutoff
    lfoDepth,       \* LFO depth (0: disabled, 1: full)
    envStage,       \* Envelope: stage
    envLevel,       \* Envelope: current level, thousandths
    oscPhase,       \* Oscillator: phase, quarter cycles
    output,         \* the block last written by process(): interleaved samples
    blocks,         \* number of process() calls begun
    ctlOps,         \* number of control-thread operations on the engine
    cutoffWritten,  \* history: value stored by the latest setFilterCutoff call
    writesThisBlock,\* history: setFilterCutoff was called since the block began
    lastCtlWrite    \* history: what the latest control operation wrote, and when

ctlVars == <<params, currentBank, shiftPressed, ctlRunning, startPc, startArg,
             encodersUp, buttonsUp, ticks, lastShiftEvent, prevShiftEvent,
             lastTick>>

engVars == <<procPc, baseCutoff, lfoDepth, envStage, envLevel, oscPhase, output,
             blocks, ctlOps, cutoffWritten, writesThisBlock, lastCtlWrite>>

\* State of the sample player, of the thread inside SamplePlayer::process and
\* of the thread inside SamplePlayer::loadMP3.
VARIABLES
    sampleData,       \* SamplePlayer::sampleData: interleaved stereo samples
    playing,          \* SamplePlayer::playing
    loop,             \* SamplePlayer::loop
    playbackPosition, \* SamplePlayer::playbackPosition
    spVolume,         \* SamplePlayer::volume, thousandths
    sampleMutex,      \* SamplePlayer::sampleMutex: "none", "loader" or "audio"
    spPc,             \* position of the audio thread inside SamplePlayer::process
    spPos,            \* process(): local pos
    spVol,            \* process(): local vol
    spOut,            \* the block last written by SamplePlayer::process
    loadFile,         \* loadMP3(): the file being loaded (0: no load in progress)
    loadResult,       \* what the latest loadMP3 returned: "none", "true", "false"
    spBlocks,         \* number of SamplePlayer::process calls begun
    spOps,            \* number of control and loader operations on the player
    spRestart         \* what became of the latest trigger() with a sample loaded:
                      \* "running" (a block was in progress and has yet to produce
                      \* its frames), "armed" (no block has begun since), "due" (the
                      \* first block begun since is in progress), "played", "lost",
                      \* "refused" (trigger() found no sample) or "none"

spVars == <<sampleData, playing, loop, playbackPosition, spVolume, sampleMutex,
            spPc, spPos, spVol, spOut, loadFile, loadResult, spBlocks, spOps,
            spRestart>>

\* State of the audio output (the sink driver) and of its audio thread.
VARIABLES
    aoRunning,      \* AudioOutput::running
    audioThread,    \* AudioOutput::audioThread: "none", "running" or "finished"
    aoPc,           \* position of the audio thread inside audioLoop
    pcm,            \* the PCM device: "closed", "open", "prepared", "xrun", "drained"
    totalBuffers,   \* AudioOutput::totalBuffers
    underruns,      \* AudioOutput::underruns
    frames,         \* audioLoop(): what the latest snd_pcm_writei returned
    recoverCalls,   \* number of snd_pcm_recover calls made
    underBefore,    \* history: underruns before the latest write
    recBefore,      \* history: recoverCalls before the latest write
    stopPc,         \* position of the thread inside AudioOutput::stop
    startResult,    \* what the latest AudioOutput::start returned
    aoTerminated,   \* std::terminate was called
    aoStarts,       \* number of start() calls made
    aoWrites,       \* number of sink writes made
    setupResult,    \* history: how the running loop's device setup ended
    stopReturned,   \* history: stop() has returned since the latest start()
    aoAlive         \* the AudioOutput object has not been destroyed

aoVars == <<aoRunning, audioThread, aoPc, pcm, totalBuffers, underruns, frames,
            recoverCalls, underBefore, recBefore, stopPc, startResult,
            aoTerminated, aoStarts, aoWrites, setupResult, stopReturned,
            aoAlive>>

\* State of the chamber reverb and the DC blocker, and of the run of process()
\* calls made on an engine that is never triggered.
VARIABLES
    allpass,        \* ReverbEffect: inputDiffusion[0], [1] and outputDiffusion
    combFilters,    \* ReverbEffect::combFilters
    earlyTaps,      \* ReverbEffect: earlyBuffers and earlyWritePos
    dcBlocker,      \* AudioEngine::dcBlocker: previous input and output
    silentOut,      \* the block last written by process() in the silent run
    silentBlocks    \* number of process() calls made in the silent run

rvVars == <<allpass, combFilters, earlyTaps, dcBlocker, silentOut, silentBlocks>>

\* State of the thread inside GPIOController::stop and of the GPIO lines.
VARIABLES
    ctlStopPc,      \* position of the thread inside GPIOController::stop
    gpioReleased,   \* cleanupGPIO has been called
    ctlStops        \* number of stop() calls made

stVars == <<ctlStopPc, gpioReleased, ctlStops>>

\* The engine's frequency path and its parameter interface.
VARIABLES
    baseFrequency,    \* AudioEngine::baseFrequency (carrier), Hz
    pitchEnvMode,     \* AudioEngine::pitchEnvMode (carrier)
    frequencySmooth,  \* AudioEngine::frequencySmooth: current and target, Hz
    oscFrequencies,   \* the frequency given to the oscillator for each sample of the last block
    triggerArmed,     \* trigger() was called since the last block was generated
    triggerFrame,     \* the first block generated after the last trigger()
    lastCall          \* the last parameter setter called through the engine's interface

apiVars == <<baseFrequency, pitchEnvMode, frequencySmooth, oscFrequencies,
             triggerArmed, triggerFrame, lastCall>>

\* One MomentarySwitch and its poll thread.  Times are kept as ages in ms,
\* which is all pollLoop compares.
VARIABLES
    swRunning,        \* "new", "running" (poll thread alive) or "stopped"
    swPc,             \* the poll thread is about to "poll" or to "sleep"
    pressed,          \* MomentarySwitch::pressed
    lastState,        \* MomentarySwitch::lastState
    sinceLastChange,  \* now - lastChange, ms, counted up to DEBOUNCE_MS
    sincePress,       \* now - lastPressTime, ms, counted up to MIN_PRESS_MS
    swRead,           \* the level last read from the pin, -1 before any read
    swRunMs,          \* for how long the reads have given that level, up to DEBOUNCE_MS
    swPressMs,        \* time since the last press event, up to MIN_PRESS_MS
    swEmitted,        \* the event emitted by the last poll, "none" if none
    swLastEvent,      \* the last event emitted before the last poll
    swLetGoEarly      \* the pin was read HIGH less than MIN_PRESS_MS after the press event

swVars == <<swRunning, swPc, pressed, lastState, sinceLastChange, sincePress, swRead,
            swRunMs, swPressMs, swEmitted, swLastEvent, swLetGoEarly>>

\* One RotaryEncoder and its poll thread.
VARIABLES
    encRunning,     \* "new" or "running"
    lastClk,        \* RotaryEncoder::lastClk
    lastDt,         \* RotaryEncoder::lastDt
    position,       \* RotaryEncoder::position
    encClkRead,     \* CLK as read by the previous update(), -1 before the first
    encEmitted,     \* direction passed to the callback by the last update(), 0 if none
    encTicks,       \* every direction passed to the callback so far
    encPolls,       \* number of update() calls so far
    encPinRead      \* CLK level of the last readPin(clkPin), -1 before the first

encVars == <<encRunning, lastClk, lastDt, position, encClkRead, encEmitted,
             encTicks, encPolls, encPinRead>>

hwVars == <<swVars, encVars>>

\* The comb feedback of the two reverb implementations, as setSize leaves it.
VARIABLES
    chamberSize,     \* ReverbEffect::size of the hybrid chamber
    chamberFeedback, \* DampedCombFilter::feedback of each of its combs
    roomSize,        \* ReverbEffect::roomSize of the Freeverb variant
    feedback,        \* ReverbEffect::feedback, handed to every comb's process()
    sizeCalls        \* number of setSize calls so far

fbVars == <<chamberSize, chamberFeedback, roomSize, feedback, sizeCalls>>

\* What start() found and what stop() had to wait for.
VARIABLES
    hasGPIO,        \* start(): local hasGPIO, "yes" or "no" ("none" before start)
    joined          \* number of poll threads stop() has joined so far

lcVars == <<hasGPIO, joined>>

\* The pitch-envelope button.
VARIABLES
    cycleModes,     \* history: the mode before the latest run of cyclePitchEnvelope
                    \* calls, then the mode each call of the run stored
    returnedName    \* the string the latest cyclePitchEnvelope returned ("" if none)

cyVars == <<cycleModes, returnedName>>

\* The shutdown button's handler.
VARIABLES
    shutdownPc,       \* position of the button's poll thread inside onShutdownPress
    shutdownPresses,  \* presses of the shutdown button so far
    callbackCalls,    \* calls of shutdownCallback so far
    commandsIssued,   \* "sudo shutdown -h now" commands issued so far
    releasedAtCommand \* history: the GPIO lines were released when the latest
                      \* command was issued

sdVars == <<shutdownPc, shutdownPresses, callbackCalls, commandsIssued,
            releasedAtCommand>>

\* The simulated controller.
VARIABLES
    toggleCalls     \* history: the engine call made by each 't' command so far

tgVars == <<toggleCalls>>

\* The envelope gate of process(): envelope values in millionths, filter
\* output in thousandths, what the delay is given in units of 1e-9.
VARIABLES
    envBuffer,      \* AudioEngine::envBuffer of the latest block
    filterOut,      \* filterBuffer as the filter loop left it
    filterBuffer,   \* filterBuffer as delay.process receives it
    gateBlocks      \* number of blocks gated so far

gtVars == <<envBuffer, filterOut, filterBuffer, gateBlocks>>

\* The engine's work buffers against the block length the sink driver uses,
\* in units of 128 frames.
VARIABLES
    procFrames,       \* process(): numFrames of the latest call (0 before the first)
    earlyBufferSize,  \* ReverbEffect: size of earlyBuffer, diffusedBuffer, combOutputBuffer
    reverbResized,    \* history: the latest call resized the reverb's work buffers
    engineCalls       \* number of process() calls so far

wbVars == <<procFrames, earlyBufferSize, reverbResized, engineCalls>>

\* A thread reading the output's statistics.
VARIABLES
    statsPc,        \* position of the thread inside getStats: "idle" or "underruns"
    stats,          \* the Stats value being built, then returned
    statsCalls      \* number of getStats calls begun

gsVars == <<statsPc, stats, statsCalls>>

\* The five encoder poll threads inside handleEncoder.
VARIABLES
    hePc,           \* per encoder: "idle", "bank", "value" or "stored"
    heBank,         \* per encoder: the local bank
    heDir,          \* per encoder: the direction of the tick being handled
    heNew,          \* per encoder: the clamped value about to be stored
    heLog,          \* per field: the directions of the ticks routed to it, in order
    heWriters,      \* per field: the encoders whose thread stored to it
    heCalls         \* number of handleEncoder calls begun

heVars == <<hePc, heBank, heDir, heNew, heLog, heWriters, heCalls>>

\* Everything a handleEncoder call does not touch, the controller and the
\* engine's parameters aside.
notHe == <<engVars, spVars, aoVars, rvVars, stVars, apiVars, hwVars, fbVars, lcVars,
           cyVars, sdVars, tgVars, gtVars, wbVars, gsVars>>

\* Everything the shutdown handler does not touch.
notSd == <<ctlVars, eng, engVars, spVars, aoVars, rvVars, stVars, apiVars, hwVars,
           fbVars, lcVars, cyVars, tgVars, gtVars, wbVars, gsVars, heVars>>

vars == <<ctlVars, eng, engVars, spVars, aoVars, rvVars, stVars, apiVars, hwVars, fbVars, lcVars, cyVars, sdVars, tgVars, gtVars, wbVars, gsVars, heVars>>

\* Everything the control surface's handlers and start() do not touch.
notCtlAll == <<engVars, spVars, aoVars, rvVars, stVars, apiVars, hwVars, fbVars, cyVars, sdVars, tgVars, gtVars, wbVars, gsVars, heVars>>
notCtl == <<notCtlAll, lcVars>>

\* Everything GPIOController::stop does not touch, the controller aside.
notStopAll == <<eng, engVars, spVars, aoVars, rvVars, apiVars, hwVars, fbVars, cyVars, sdVars, tgVars, gtVars, wbVars, gsVars, heVars>>
notStop == <<notStopAll, lcVars>>

\* Everything the engine's operations do not touch.
notEngAll == <<ctlVars, spVars, aoVars, rvVars, stVars, apiVars, hwVars, fbVars, lcVars, cyVars, sdVars, gtVars, wbVars, gsVars, heVars>>
notEng == <<notEngAll, tgVars>>

\* The same without the frequency path and the parameter interface.
notApiAll == <<ctlVars, spVars, aoVars, rvVars, stVars, hwVars, fbVars, lcVars, sdVars, gtVars, wbVars, gsVars, heVars>>
notApi == <<notApiAll, cyVars, tgVars>>

\* Everything the sample player's operations do not touch.
notSpAll == <<ctlVars, eng, engVars, aoVars, rvVars, stVars, apiVars, hwVars, fbVars, lcVars, cyVars, sdVars, tgVars, gtVars, wbVars, gsVars, heVars>>

\* The same with the record of the latest trigger().
notSp == <<ctlVars, eng, engVars, aoVars, rvVars, stVars, apiVars, hwVars, fbVars, lcVars, cyVars, sdVars, tgVars, gtVars, wbVars, gsVars, heVars, spRestart>>

\* Everything the audio output's operations do not touch.
notAo == <<ctlVars, eng, engVars, spVars, rvVars, stVars, apiVars, hwVars, fbVars, lcVars, cyVars, sdVars, tgVars, gtVars, wbVars, gsVars, heVars>>

\* Everything the silent run does not touch.
notRv == <<ctlVars, eng, engVars, spVars, aoVars, stVars, apiVars, hwVars, fbVars, lcVars, cyVars, sdVars, tgVars, gtVars, wbVars, gsVars, heVars>>

\* GPIOController::GPIOController, next to a freshly constructed engine.
CtlInit ==
    /\ params = ParametersDefault
    /\ currentBank = "A"
    /\ shiftPressed = FALSE
    /\ ctlRunning = FALSE
    /\ startPc = 0
    /\ startArg = 0
    /\ encodersUp = FALSE
    /\ buttonsUp = FALSE
    /\ eng = EngineDefault
    /\ ticks = 0
    /\ lastShiftEvent = "none"
    /\ prevShiftEvent = "none"
    /\ lastTick = <<>>

\* Mutant: the encoders and buttons are created whatever initGPIO returned.
StartBegin_AlwaysCreates(g) ==
    /\ startPc = 0
    /\ ~ctlRunning
    /\ startPc' = 1
    /\ encodersUp' = TRUE
    /\ buttonsUp' = TRUE
    /\ hasGPIO' = (IF g THEN "yes" ELSE "no")
    /\ UNCHANGED <<params, currentBank, shiftPressed, ctlRunning, startArg, eng,
                   ticks, lastShiftEvent, prevShiftEvent,
                   lastTick, joined>>
    /\ UNCHANGED notCtlAll

\* start(), first part: initGPIO and, if it succeeds, creation and start of
\* the five encoders and four buttons.  startPc 0 is "not entered", k in
\* 1..8 is "about to evaluate the argument of setter k", -k is "argument of
\* setter k evaluated, about to call it", 9 is "about to set running", 10 is
\* "returned".
StartBegin(g) ==
    /\ startPc = 0
    /\ ~ctlRunning
    /\ startPc' = 1
    /\ encodersUp' = g
    /\ buttonsUp' = g
    /\ hasGPIO' = (IF g THEN "yes" ELSE "no")
    /\ UNCHANGED <<params, currentBank, shiftPressed, ctlRunning, startArg, eng,
                   ticks, lastShiftEvent, prevShiftEvent,
                   lastTick, joined>>
    /\ UNCHANGED notCtlAll

\* start(): evaluation of params.<field> as the argument of setter k.
StartLoadArg ==
    /\ startPc \in 1..8
    /\ startArg' = params[StartApplyOrder[startPc]]
    /\ startPc' = -startPc
    /\ UNCHANGED <<params, currentBank, shiftPressed, ctlRunning, encodersUp,
                   buttonsUp, eng, ticks, lastShiftEvent, prevShiftEvent,
                   lastTick>>
    /\ UNCHANGED notCtl

\* start(): the call engine.setX(argument) of setter k.
StartCallSetter ==
    /\ startPc \in -8..-1
    /\ eng' = CallSetter(eng, EngineSetterOf(StartApplyOrder[-startPc]), startArg)
    /\ startPc' = (-startPc) + 1
    /\ startArg' = 0
    /\ UNCHANGED <<params, currentBank, shiftPressed, ctlRunning,
                   encodersUp, buttonsUp, ticks, lastShiftEvent, prevShiftEvent,
                   lastTick>>
    /\ UNCHANGED notCtl

\* start(): running.store(true) and return.
StartFinish ==
    /\ startPc = 9
    /\ ctlRunning' = TRUE
    /\ startPc' = 10
    /\ UNCHANGED <<params, currentBank, shiftPressed, startArg, encodersUp,
                   buttonsUp, eng, ticks, lastShiftEvent, prevShiftEvent,
                   lastTick>>
    /\ UNCHANGED notCtl

\* GPIOController::handleEncoder(encoderIndex, direction), called from the
\* poll thread of encoder encoderIndex on a tick.
handleEncoder(encoderIndex, direction) ==
    LET name == paramName(currentBank, encoderIndex)
        newValue == TickValue(name, params[name], direction)
    IN /\ encodersUp
       /\ ticks < MaxTicks
       /\ startPc # 10 => ticks < MaxStartTicks
       /\ params' = [params EXCEPT ![name] = newValue]
       /\ eng' = CallSetter(eng, EngineSetterOf(name), newValue)
          /\ ticks' = ticks + 1
       /\ lastTick' = <<encoderIndex, direction>>
       /\ UNCHANGED <<currentBank, shiftPressed, ctlRunning, startPc, startArg,
                      encodersUp, buttonsUp, lastShiftEvent, prevShiftEvent>>
       /\ UNCHANGED notCtl

EncoderTick == \E i \in Encoders, d \in {-1, 1} : handleEncoder(i, d)

\* Mutant: the press handler toggles the bank instead of selecting Bank B.
onShiftPress_Toggles ==
    /\ buttonsUp
    /\ shiftPressed' = TRUE
    /\ currentBank' = (IF currentBank = "A" THEN "B" ELSE "A")
    /\ lastShiftEvent' = "press"
    /\ prevShiftEvent' = lastShiftEvent
    /\ UNCHANGED <<params, ctlRunning, startPc, startArg, encodersUp, buttonsUp,
                   eng, ticks, lastTick>>
    /\ UNCHANGED notCtl

\* GPIOController::onShiftPress, called from the shift button's poll thread.
\* (A press can arrive while Bank B is already current: start() after a
\* stop() creates a fresh switch whose pressed flag is false.)
onShiftPress ==
    /\ buttonsUp
    /\ shiftPressed' = TRUE
    /\ currentBank' = "B"
    /\ lastShiftEvent' = "press"
    /\ prevShiftEvent' = lastShiftEvent
    /\ UNCHANGED <<params, ctlRunning, startPc, startArg, encodersUp, buttonsUp,
                   eng, ticks, lastTick>>
    /\ UNCHANGED notCtl

\* GPIOController::onShiftRelease.
onShiftRelease ==
    /\ buttonsUp
    /\ shiftPressed' = FALSE
    /\ currentBank' = "A"
    /\ lastShiftEvent' = "release"
    /\ prevShiftEvent' = lastShiftEvent
    /\ UNCHANGED <<params, ctlRunning, startPc, startArg, encodersUp, buttonsUp,
                   eng, ticks, lastTick>>
    /\ UNCHANGED notCtl

\* GPIOController::GPIOController: stop() not entered, GPIO not released.
StInit ==
    /\ ctlStopPc = "idle"
    /\ gpioReleased = FALSE
    /\ ctlStops = 0
    /\ hasGPIO = "none"
    /\ joined = 0
    /\ shutdownPc = "idle"
    /\ shutdownPresses = 0
    /\ callbackCalls = 0
    /\ commandsIssued = 0
    /\ releasedAtCommand = FALSE

\* encoders[5] and buttons[4] of GPIOController.
NumEncoders == 5
NumButtons == 4

\* stop() calls in one run.
MaxStops == 2

\* GPIOController::stop, lines 404-406, called by the thread that called
\* start(): return when not running, else clear the running flag.
GPIOController_stopBegin ==
    /\ startPc \in {0, 10}
    /\ ctlStopPc = "idle"
    /\ ctlStops < MaxStops
    /\ ctlStops' = ctlStops + 1
    /\ IF ctlRunning
       THEN /\ ctlRunning' = FALSE
            /\ ctlStopPc' = "encoders"
       ELSE UNCHANGED <<ctlRunning, ctlStopPc>>
    /\ UNCHANGED <<params, currentBank, shiftPressed, startPc, startArg,
                   encodersUp, buttonsUp, ticks, lastShiftEvent, prevShiftEvent,
                   lastTick, gpioReleased>>
    /\ UNCHANGED notStop

\* Mutant: the GPIO lines are released as soon as the encoders are stopped.
GPIOController_stopEncoders_ThenCleanup ==
    /\ ctlStopPc = "encoders"
    /\ encodersUp' = FALSE
    /\ joined' = joined + (IF encodersUp THEN NumEncoders ELSE 0)
    /\ UNCHANGED hasGPIO
    /\ gpioReleased' = TRUE
    /\ ctlStopPc' = "buttons"
    /\ UNCHANGED <<params, currentBank, shiftPressed, ctlRunning, startPc,
                   startArg, buttonsUp, ticks, lastShiftEvent, prevShiftEvent,
                   lastTick, ctlStops>>
    /\ UNCHANGED notStopAll

\* stop(), lines 408-410: every encoder that exists is stopped, its poll
\* thread told to end and joined (RotaryEncoder::stop).
GPIOController_stopEncoders ==
    /\ ctlStopPc = "encoders"
    /\ encodersUp' = FALSE
    /\ joined' = joined + (IF encodersUp THEN NumEncoders ELSE 0)
    /\ UNCHANGED hasGPIO
    /\ ctlStopPc' = "buttons"
    /\ UNCHANGED <<params, currentBank, shiftPressed, ctlRunning, startPc,
                   startArg, buttonsUp, ticks, lastShiftEvent, prevShiftEvent,
                   lastTick, gpioReleased, ctlStops>>
    /\ UNCHANGED notStopAll

\* stop(), lines 412-414: every button that exists is stopped, its poll
\* thread told to end and joined (MomentarySwitch::stop); the join waits for
\* a handler the thread is inside.
GPIOController_stopButtons ==
    /\ ctlStopPc = "buttons"
    /\ shutdownPc = "idle"
    /\ buttonsUp' = FALSE
    /\ joined' = joined + (IF buttonsUp THEN NumButtons ELSE 0)
    /\ UNCHANGED hasGPIO
    /\ ctlStopPc' = "cleanup"
    /\ UNCHANGED <<params, currentBank, shiftPressed, ctlRunning, startPc,
                   startArg, encodersUp, ticks, lastShiftEvent, prevShiftEvent,
                   lastTick, gpioReleased, ctlStops>>
    /\ UNCHANGED notStopAll

\* stop(), lines 416-419: cleanupGPIO and return.
GPIOController_stopCleanup ==
    /\ ctlStopPc = "cleanup"
    /\ gpioReleased' = TRUE
    /\ ctlStopPc' = "idle"
    /\ UNCHANGED <<params, currentBank, shiftPressed, ctlRunning, startPc,
                   startArg, encodersUp, buttonsUp, ticks, lastShiftEvent,
                   prevShiftEvent, lastTick, ctlStops>>
    /\ UNCHANGED notStop

\* Presses of the shutdown button in one run.
MaxPresses == 2

\* GPIOController::onShutdownPress, lines 528-532, called from the shutdown
\* button's poll thread on a press: the banner is printed.
onShutdownPress ==
    /\ buttonsUp
    /\ shutdownPc = "idle"
    /\ shutdownPresses < MaxPresses
    /\ shutdownPresses' = shutdownPresses + 1
    /\ shutdownPc' = "callback"
    /\ UNCHANGED <<callbackCalls, commandsIssued, releasedAtCommand>>
    /\ UNCHANGED notSd

\* onShutdownPress, lines 534-536: shutdownCallback() if one was given; the
\* callback tells the owner to shut down and returns.
onShutdownPress_callback(given) ==
    /\ shutdownPc = "callback"
    /\ callbackCalls' = callbackCalls + (IF given THEN 1 ELSE 0)
    /\ shutdownPc' = "system"
    /\ UNCHANGED <<shutdownPresses, commandsIssued, releasedAtCommand>>
    /\ UNCHANGED notSd

\* onShutdownPress, line 539: std::system("sudo shutdown -h now"), and return.
onShutdownPress_system ==
    /\ shutdownPc = "system"
    /\ commandsIssued' = commandsIssued + 1
    /\ releasedAtCommand' = gpioReleased
    /\ shutdownPc' = "idle"
    /\ UNCHANGED <<shutdownPresses, callbackCalls>>
    /\ UNCHANGED notSd

\* ------------------------------------------------------------------------
\* Audio engine: DSP state, process() on the audio thread, and the
\* operations control threads call
\* ------------------------------------------------------------------------
\* DSP objects owned by the engine, and its AudioParameter carriers.
DspState == {"oscillator", "envelope", "lfo", "filter", "delay", "reverb"}
Carriers == {"volume", "baseFrequency", "pitchEnvMode"}

\* Envelope (AR): change of level over one block, thousandths.
EnvBlockStep == 500

\* Envelope::trigger: jump to Attack from the current level.
EnvTrigger(stage) == "Attack"

\* Envelope::release: jump to Release from the current level; no-op when Idle.
EnvRelease(stage) == IF stage = "Idle" THEN "Idle" ELSE "Release"

\* Envelope::generate over one block: <<stage, level>> at the end of the block.
EnvGenerate(stage, level) ==
    CASE stage = "Attack" ->
            IF level + EnvBlockStep >= 1000 THEN <<"Sustain", 1000>>
            ELSE <<"Attack", level + EnvBlockStep>>
      [] stage = "Release" ->
            IF level - EnvBlockStep <= 0 THEN <<"Idle", 0>>
            ELSE <<"Release", level - EnvBlockStep>>
      [] OTHER -> <<stage, level>>

\* process(): modCutoff = clamp(baseCutoff * 2^(lfo * 2), 100, 8000), for an
\* LFO sample lfo in {-1, 0, 1}.
ModCutoff(base, lfo) ==
    clamp(IF lfo = 1 THEN base * 4 ELSE IF lfo = -1 THEN base \div 4 ELSE base,
          100, 8000)

\* Values an LFO block can hold: zero at depth 0, else anything in [-1, 1].
LfoSamples(depth) == IF depth = 0 THEN {0} ELSE {-1, 0, 1}

\* x * vol for a sample x and a gain vol, both in thousandths.
Scale(x, vol) == IF x >= 0 THEN (x * vol) \div 1000 ELSE -(((-x) * vol) \div 1000)

\* Mutant: the output stage without its clamp.
OutputSample_NoClamp(x, vol) == Scale(x, vol)

\* process(): sample = clamp(filterBuffer[i] * vol, -1, 1).
OutputSample(x, vol) == clamp(Scale(x, vol), -1000, 1000)

\* process(): output[i * 2] = sample; output[i * 2 + 1] = sample.
Interleave(samples) ==
    [k \in 1..(2 * Len(samples)) |-> samples[(k + 1) \div 2]]

\* Values of filterBuffer[i] after delay, reverb and DC blocker, before the
\* gain: the chain upstream of the output stage is not computed here, any of
\* these levels (thousandths, some beyond full scale) may arrive.
PreGainLevels == {-2500, 0, 400, 2500}

\* Arguments the control threads pass to the setters.
CutoffInputs == {500, 30000}
VolumeInputs == {0, 1500}

NoCtlWrite == [objs |-> {}, during |-> FALSE]

\* AudioEngine::getVolume and AudioEngine::getFrequency: the carrier's value.
getVolume(e) == e.volume
getFrequency(f) == f

\* SmoothedValue::getNext: current moves toward target by the coefficient
\* (0.02 of the distance per sample); kept in whole Hz, the last Hz is taken
\* in one step.
SmoothCoefficient == 20
SmoothNext(current, target) ==
    LET dist == IF target >= current THEN target - current ELSE current - target
        step == IF dist = 0 THEN 0
                ELSE IF (dist * SmoothCoefficient) \div 1000 = 0 THEN 1
                ELSE (dist * SmoothCoefficient) \div 1000
    IN  IF target >= current THEN current + step ELSE current - step

\* process(), lines 47-51: the values of currentFrequency over n samples.
RECURSIVE SmoothRun(_, _, _)
SmoothRun(current, target, n) ==
    IF n = 0 THEN <<>>
    ELSE <<SmoothNext(current, target)>>
         \o SmoothRun(SmoothNext(current, target), target, n - 1)

NoTriggerFrame == [valid |-> FALSE, mode |-> "None", f0 |-> 0, first |-> 0, last |-> 0]
NoCall == [op |-> "none", arg |-> 0]

\* AudioEngine::AudioEngine, the frequency path: 440 Hz, no pitch envelope.
ApiInit ==
    /\ baseFrequency = 440
    /\ pitchEnvMode = "None"
    /\ frequencySmooth = [current |-> 440, target |-> 440]
    /\ oscFrequencies = <<>>
    /\ triggerArmed = FALSE
    /\ triggerFrame = NoTriggerFrame
    /\ lastCall = NoCall
    /\ cycleModes = <<"None">>
    /\ returnedName = ""
    /\ toggleCalls = <<>>

\* AudioEngine::AudioEngine.
EngInit ==
    /\ procPc = "idle"
    /\ baseCutoff = 0
    /\ lfoDepth = 0
    /\ envStage = "Idle"
    /\ envLevel = 0
    /\ oscPhase = 0
    /\ output = <<>>
    /\ blocks = 0
    /\ ctlOps = 0
    /\ cutoffWritten = 2000
    /\ writesThisBlock = FALSE
    /\ lastCtlWrite = NoCtlWrite

\* process(), lines 44-57: frequency smoothing, oscillator, LFO and envelope
\* blocks are generated.
ProcGenerate ==
    /\ procPc = "idle"
    /\ blocks < MaxBlocks
    /\ blocks' = blocks + 1
    /\ oscPhase' = (oscPhase + 1) % 4
    /\ envStage' = EnvGenerate(envStage, envLevel)[1]
    /\ envLevel' = EnvGenerate(envStage, envLevel)[2]
    /\ output' = <<>>
    /\ writesThisBlock' = FALSE
    /\ lastCtlWrite' = NoCtlWrite
    /\ procPc' = "base"
    /\ LET freqs == SmoothRun(frequencySmooth.current, baseFrequency, BlockFrames)
       IN  /\ frequencySmooth' = [current |-> freqs[BlockFrames], target |-> baseFrequency]
           /\ oscFrequencies' = freqs
           /\ triggerFrame' =
                 IF triggerArmed
                 THEN [valid |-> TRUE, mode |-> pitchEnvMode, f0 |-> baseFrequency,
                       first |-> freqs[1], last |-> freqs[BlockFrames]]
                 ELSE triggerFrame
    /\ triggerArmed' = FALSE
    /\ UNCHANGED <<baseCutoff, lfoDepth, ctlOps, cutoffWritten, eng,
                   baseFrequency, pitchEnvMode, lastCall, notApi>>

\* process(), line 60: float baseCutoff = filter.getCutoff().
ProcReadBase ==
    /\ procPc = "base"
    /\ baseCutoff' = eng.filterCutoff
    /\ lastCtlWrite' = NoCtlWrite
    /\ procPc' = "mod"
    /\ UNCHANGED <<lfoDepth, envStage, envLevel, oscPhase, output, blocks, ctlOps,
                   cutoffWritten, writesThisBlock, eng, notEng>>

\* process(), lines 61-67: per sample filter.setCutoff(modCutoff) and
\* filter.processSample; the filter is left at the last sample's modCutoff.
ProcModulate ==
    /\ procPc = "mod"
    /\ \E lfo \in LfoSamples(lfoDepth) :
          eng' = [eng EXCEPT !.filterCutoff = FilterSetCutoff(ModCutoff(baseCutoff, lfo))]
    /\ lastCtlWrite' = NoCtlWrite
    /\ procPc' = "restore"
    /\ UNCHANGED <<baseCutoff, lfoDepth, envStage, envLevel, oscPhase, output,
                   blocks, ctlOps, cutoffWritten, writesThisBlock, notEng>>

\* process(), line 69: filter.setCutoff(baseCutoff).
ProcRestore ==
    /\ procPc = "restore"
    /\ eng' = [eng EXCEPT !.filterCutoff = FilterSetCutoff(baseCutoff)]
    /\ lastCtlWrite' = NoCtlWrite
    /\ procPc' = "out"
    /\ UNCHANGED <<baseCutoff, lfoDepth, envStage, envLevel, oscPhase, output,
                   blocks, ctlOps, cutoffWritten, writesThisBlock, notEng>>

\* process(), lines 71-96: gate, delay, reverb, DC blocker, then volume, clamp
\* and stereo interleave.
ProcOutput ==
    /\ procPc = "out"
    /\ \E pre \in [1..BlockFrames -> PreGainLevels] :
          output' = Interleave([i \in 1..BlockFrames |-> OutputSample(pre[i], eng.volume)])
    /\ lastCtlWrite' = NoCtlWrite
    /\ procPc' = "idle"
    /\ UNCHANGED <<baseCutoff, lfoDepth, envStage, envLevel, oscPhase, blocks,
                   ctlOps, cutoffWritten, writesThisBlock, eng, notEng>>

\* A control thread calls AudioEngine::trigger: oscillator.resetPhase() and
\* envelope.trigger() under triggerMutex (which process() does not take).
triggerCall ==
    /\ ctlOps < MaxCtlOps
    /\ ctlOps' = ctlOps + 1
    /\ oscPhase' = 0
    /\ envStage' = EnvTrigger(envStage)
    /\ lastCtlWrite' = [objs |-> {"oscillator", "envelope"}, during |-> procPc # "idle"]
    /\ triggerArmed' = TRUE
    /\ UNCHANGED <<procPc, baseCutoff, lfoDepth, envLevel, output, blocks,
                   cutoffWritten, writesThisBlock, eng,
                   baseFrequency, pitchEnvMode, frequencySmooth, oscFrequencies,
                   triggerFrame, lastCall, notApiAll, cyVars>>

trigger == triggerCall /\ UNCHANGED toggleCalls

\* A control thread calls AudioEngine::release: envelope.release() under
\* triggerMutex.
releaseCall ==
    /\ ctlOps < MaxCtlOps
    /\ ctlOps' = ctlOps + 1
    /\ envStage' = EnvRelease(envStage)
    /\ lastCtlWrite' = [objs |-> {"envelope"}, during |-> procPc # "idle"]
    /\ UNCHANGED <<procPc, baseCutoff, lfoDepth, envLevel, oscPhase, output, blocks,
                   cutoffWritten, writesThisBlock, eng, notEngAll>>

release == releaseCall /\ UNCHANGED toggleCalls

\* AudioEngine::isPlaying: envelope.isActive() || envelope.getCurrentValue() > 0.001.
isPlaying == envStage # "Idle" \/ envLevel > 1

\* A control thread calls AudioEngine::setFilterCutoff(freq): filter.setCutoff.
CtlSetFilterCutoff(freq) ==
    /\ ctlOps < MaxCtlOps
    /\ ctlOps' = ctlOps + 1
    /\ eng' = setFilterCutoff(eng, freq)
    /\ cutoffWritten' = FilterSetCutoff(freq)
    /\ writesThisBlock' = TRUE
    /\ lastCtlWrite' = [objs |-> {"filter"}, during |-> procPc # "idle"]
    /\ UNCHANGED <<procPc, baseCutoff, lfoDepth, envStage, envLevel, oscPhase,
                   output, blocks, notEng>>

\* A control thread calls AudioEngine::setVolume(vol): volume.set (a carrier).
CtlSetVolume(vol) ==
    /\ ctlOps < MaxCtlOps
    /\ ctlOps' = ctlOps + 1
    /\ eng' = setVolume(eng, vol)
    /\ lastCtlWrite' = [objs |-> {"volume"}, during |-> procPc # "idle"]
    /\ lastCall' = [op |-> "setVolume", arg |-> vol]
    /\ UNCHANGED <<procPc, baseCutoff, lfoDepth, envStage, envLevel, oscPhase,
                   output, blocks, cutoffWritten, writesThisBlock,
                   baseFrequency, pitchEnvMode, frequencySmooth, oscFrequencies,
                   triggerArmed, triggerFrame, notApi>>

\* What the engine's interface operations below leave unchanged in the
\* audio path.
engPath == <<procPc, baseCutoff, lfoDepth, envStage, envLevel, oscPhase, output,
             blocks, cutoffWritten, writesThisBlock>>

\* A control thread calls AudioEngine::setFrequency(freq): baseFrequency.set
\* (a carrier).
AudioEngine_setFrequency(freq) ==
    /\ ctlOps < MaxCtlOps
    /\ ctlOps' = ctlOps + 1
    /\ baseFrequency' = clamp(freq, 20, 20000)
    /\ lastCtlWrite' = [objs |-> {"baseFrequency"}, during |-> procPc # "idle"]
    /\ lastCall' = [op |-> "setFrequency", arg |-> freq]
    /\ UNCHANGED <<engPath, eng, pitchEnvMode, frequencySmooth, oscFrequencies,
                   triggerArmed, triggerFrame, notApi>>

\* A control thread calls AudioEngine::setPitchEnvelopeMode(mode):
\* pitchEnvMode.set (a carrier).
AudioEngine_setPitchEnvelopeMode(mode) ==
    /\ ctlOps < MaxCtlOps
    /\ ctlOps' = ctlOps + 1
    /\ pitchEnvMode' = mode
    /\ lastCtlWrite' = [objs |-> {"pitchEnvMode"}, during |-> procPc # "idle"]
    /\ cycleModes' = <<mode>>
    /\ UNCHANGED <<engPath, eng, baseFrequency, frequencySmooth, oscFrequencies,
                   triggerArmed, triggerFrame, lastCall, returnedName, notApiAll,
                   toggleCalls>>

\* Calls of the pitch-envelope button in one run.
MaxCycleCalls == 8

\* Mutant: the name returned is that of the mode found, not of the mode stored.
ModeName_OfCurrent(current, next) ==
    CASE current = "None" -> "none"
      [] current = "Up"   -> "up"
      [] current = "Down" -> "down"
      [] OTHER            -> "none"

\* cyclePitchEnvelope, lines 129-134: the string returned for next.
ModeName(current, next) ==
    CASE next = "None" -> "none"
      [] next = "Up"   -> "up"
      [] next = "Down" -> "down"
      [] OTHER         -> "none"

\* AudioEngine::cyclePitchEnvelope: None -> Up -> Down -> None; the call is
\* counted among the control operations of the engine or, when it comes
\* from the pitch-envelope button, among the presses of the button.
cyclePitchEnvelopeCall(counted) ==
    LET current == pitchEnvMode
        next == CASE current = "None" -> "Up"
                  [] current = "Up"   -> "Down"
                  [] OTHER            -> "None"
    IN /\ IF counted
          THEN /\ ctlOps < MaxCtlOps
               /\ ctlOps' = ctlOps + 1
          ELSE /\ Len(cycleModes) <= MaxCycleCalls
               /\ UNCHANGED ctlOps
       /\ pitchEnvMode' = next
       /\ returnedName' = ModeName(current, next)
       /\ cycleModes' = Append(cycleModes, next)
       /\ lastCtlWrite' = [objs |-> {"pitchEnvMode"}, during |-> procPc # "idle"]
       /\ UNCHANGED <<engPath, eng, baseFrequency, frequencySmooth, oscFrequencies,
                      triggerArmed, triggerFrame, lastCall, notApiAll,
                      toggleCalls>>

cyclePitchEnvelope == cyclePitchEnvelopeCall(TRUE)

\* GPIOController::onPitchEnvPress: engine.cyclePitchEnvelope(), the name
\* returned is printed.
onPitchEnvPress == cyclePitchEnvelopeCall(FALSE)

\* SimulatedController::processCommand(cmd) for the commands that act on the
\* engine: 't' releases or triggers, 'p' cycles the pitch envelope.
SimulatedController_processCommand(cmd) ==
    CASE cmd = "t" ->
            IF isPlaying
            THEN /\ releaseCall
                 /\ toggleCalls' = Append(toggleCalls, "release")
            ELSE /\ triggerCall
                 /\ toggleCalls' = Append(toggleCalls, "trigger")
      [] cmd = "p" -> cyclePitchEnvelope /\ UNCHANGED toggleCalls

\* A control thread calls AudioEngine::setWaveform(int index):
\* oscillator.setWaveform.
AudioEngine_setWaveform(index) ==
    /\ ctlOps < MaxCtlOps
    /\ ctlOps' = ctlOps + 1
    /\ eng' = setWaveform(eng, index)
    /\ lastCtlWrite' = [objs |-> {"oscillator"}, during |-> procPc # "idle"]
    /\ lastCall' = [op |-> "setWaveform", arg |-> index]
    /\ UNCHANGED <<engPath, baseFrequency, pitchEnvMode, frequencySmooth,
                   oscFrequencies, triggerArmed, triggerFrame, notApi>>

\* A control thread calls AudioEngine::setLfoWaveform(int index):
\* lfo.setWaveform.
AudioEngine_setLfoWaveform(index) ==
    /\ ctlOps < MaxCtlOps
    /\ ctlOps' = ctlOps + 1
    /\ eng' = setLfoWaveform(eng, index)
    /\ lastCtlWrite' = [objs |-> {"lfo"}, during |-> procPc # "idle"]
    /\ lastCall' = [op |-> "setLfoWaveform", arg |-> index]
    /\ UNCHANGED <<engPath, baseFrequency, pitchEnvMode, frequencySmooth,
                   oscFrequencies, triggerArmed, triggerFrame, notApi>>

\* Arguments given to the engine's interface.
FrequencyInputs == {10, 200, 30000}
VolumeArgs == {-500, 300, 1500}
WaveformIndices == {-5, -1, 2, 4, 7}
PitchEnvelopeModes == {"None", "Up", "Down"}

\* A control thread calls AudioEngine::setLfoDepth(depth): lfo.setDepth.
CtlSetLfoDepth(depth) ==
    /\ ctlOps < MaxCtlOps
    /\ ctlOps' = ctlOps + 1
    /\ lfoDepth' = depth
    /\ lastCtlWrite' = [objs |-> {"lfo"}, during |-> procPc # "idle"]
    /\ UNCHANGED <<procPc, baseCutoff, envStage, envLevel, oscPhase, output, blocks,
                   cutoffWritten, writesThisBlock, eng, notEng>>

\* ------------------------------------------------------------------------
\* Sample player: loadMP3 on a loader thread, trigger/stop/setters on control
\* threads, process() on the audio thread
\* ------------------------------------------------------------------------
\* Device sample rate and the rates of the files, in units of 24 kHz.
PlayerRate == 2

\* Marks a float that is not a finite number.
NotFinite == 999999

\* The files loadMP3 can be given: what the decoder yields for each.  File 1
\* cannot be opened, file 2 decodes to no frame, file 3 is stereo at the
\* device rate, file 4 is mono at half the device rate.
Mp3Files ==
    [f \in 1..4 |->
        CASE f = 1 -> [opens |-> FALSE, hz |-> 0, channels |-> 0, pcm |-> <<>>]
          [] f = 2 -> [opens |-> TRUE, hz |-> 0, channels |-> 0, pcm |-> <<>>]
          [] f = 3 -> [opens |-> TRUE, hz |-> 2, channels |-> 2,
                       pcm |-> <<100, 200, 300, 400, 500, 600>>]
          [] OTHER -> [opens |-> TRUE, hz |-> 1, channels |-> 1,
                       pcm |-> <<200, 400>>]]

\* loadMP3, lines 93-104: mono to stereo.
MonoToStereo(mono) == [k \in 1..(2 * Len(mono)) |-> mono[(k + 1) \div 2]]

\* resample, lines 193-224: linear interpolation of interleaved stereo data.
\* For the last source frame the code reads input[(srcFrame + 1) * channels
\* + ch], one frame past the end of the vector; oob is what that read yields.
resample(input, inputRate, outputRate, oob) ==
    IF inputRate = outputRate THEN input
    ELSE
        LET inputFrames == Len(input) \div 2
            outputFrames == (inputFrames * outputRate) \div inputRate
            At(frame, ch) ==
                IF frame < inputFrames THEN input[frame * 2 + ch + 1] ELSE oob
            Interp(outFrame, ch) ==
                LET src0 == (outFrame * inputRate) \div outputRate
                    last == src0 + 1 >= inputFrames
                    srcFrame == IF last THEN inputFrames - 1 ELSE src0
                    fracNum == IF last THEN 0 ELSE (outFrame * inputRate) % outputRate
                    sample1 == At(srcFrame, ch)
                    sample2 == At(srcFrame + 1, ch)
                IN  IF sample2 = NotFinite THEN NotFinite
                    ELSE sample1 + (fracNum * (sample2 - sample1)) \div outputRate
        IN  [k \in 1..(outputFrames * 2) |-> Interp((k - 1) \div 2, (k - 1) % 2)]

\* resample, lines 209-221: the zero-based indices of input the loop reads,
\* sample1 at srcFrame * channels + ch and sample2 one frame further.
resampleReads(input, inputRate, outputRate) ==
    IF inputRate = outputRate THEN {}
    ELSE
        LET inputFrames == Len(input) \div 2
            outputFrames == (inputFrames * outputRate) \div inputRate
            SrcFrame(outFrame) ==
                LET src0 == (outFrame * inputRate) \div outputRate
                IN IF src0 + 1 >= inputFrames THEN inputFrames - 1 ELSE src0
        IN UNION {{SrcFrame(o) * 2 + ch, (SrcFrame(o) + 1) * 2 + ch} :
                    o \in 0..(outputFrames - 1), ch \in {0, 1}}

\* loadMP3, lines 93-104: the decoded samples of a file as handed to resample.
Decoded(file) == IF file.channels = 1 THEN MonoToStereo(file.pcm) ELSE file.pcm

\* What a read past the end of the decoded vector can yield.
OutOfBounds == {0, NotFinite}

\* loadMP3, lines 84-116: the sample data a decoded file is stored as.
LoadedData(file, oob) ==
    LET stereo == IF file.channels = 1 THEN MonoToStereo(file.pcm) ELSE file.pcm
    IN  resample(stereo, file.hz, PlayerRate, oob)

\* Mutant: the block is left as it was (not zero).
Silence_Stale(n) == [k \in 1..n |-> 1]

\* memset(output, 0, ...): n zeros.
Silence(n) == [k \in 1..n |-> 0]

\* Frames per block in the sample player specification.
SpFrames == 2
\* SamplePlayer::process calls begun in one run.
MaxSpBlocks == 3
\* Control and loader operations on the player in one run.
MaxSpOps == 4

\* sampleData[pos] * vol.
Gain(x, vol) == IF x = NotFinite THEN NotFinite ELSE Scale(x, vol)

\* Mutant: the end of the sample wraps to the start whether or not looping
\* is enabled.
RECURSIVE CopyFrames_AlwaysWraps(_, _, _, _, _, _)
CopyFrames_AlwaysWraps(frame, pos, out, data, vol, looping) ==
    IF frame = SpFrames THEN [out |-> out, pos |-> pos, stopped |-> FALSE]
    ELSE LET p == IF pos >= Len(data) THEN 0 ELSE pos
         IN  CopyFrames_AlwaysWraps(frame + 1, p + 2,
                        out \o <<Gain(data[p + 1], vol), Gain(data[p + 2], vol)>>,
                        data, vol, looping)

\* process(), lines 167-184: the frame loop.  Yields the block, the local pos
\* after the loop and whether the loop stored false into playing.
RECURSIVE CopyFrames(_, _, _, _, _, _)
CopyFrames(frame, pos, out, data, vol, looping) ==
    IF frame = SpFrames THEN [out |-> out, pos |-> pos, stopped |-> FALSE]
    ELSE IF pos >= Len(data) /\ ~looping
         THEN [out |-> out \o Silence((SpFrames - frame) * 2), pos |-> pos,
               stopped |-> TRUE]
         ELSE LET p == IF pos >= Len(data) THEN 0 ELSE pos
              IN  CopyFrames(frame + 1, p + 2,
                             out \o <<Gain(data[p + 1], vol), Gain(data[p + 2], vol)>>,
                             data, vol, looping)

\* SamplePlayer::SamplePlayer.
SpInit ==
    /\ sampleData = <<>>
    /\ playing = FALSE
    /\ loop = FALSE
    /\ playbackPosition = 0
    /\ spVolume = 1000
    /\ sampleMutex = "none"
    /\ spPc = "idle"
    /\ spPos = 0
    /\ spVol = 0
    /\ spOut = <<>>
    /\ loadFile = 0
    /\ loadResult = "none"
    /\ spBlocks = 0
    /\ spOps = 0
    /\ spRestart = "none"

\* loadMP3, line 23: the loader thread takes sampleMutex.
LoadBegin(f) ==
    /\ loadFile = 0
    /\ spOps < MaxSpOps
    /\ sampleMutex = "none"
    /\ sampleMutex' = "loader"
    /\ loadFile' = f
    /\ spOps' = spOps + 1
    /\ UNCHANGED <<sampleData, playing, loop, playbackPosition, spVolume, spPc,
                   spPos, spVol, spOut, loadResult, spBlocks>>
    /\ UNCHANGED notSp

\* Mutant: a successful load leaves the playback position where it was.
LoadFinish_KeepsPosition ==
    /\ loadFile # 0
    /\ LET file == Mp3Files[loadFile]
       IN  IF ~file.opens \/ file.pcm = <<>>
           THEN /\ loadResult' = "false"
                /\ UNCHANGED <<sampleData, playbackPosition>>
           ELSE /\ \E oob \in OutOfBounds :
                      sampleData' = LoadedData(file, oob)
                /\ UNCHANGED playbackPosition
                /\ loadResult' = "true"
    /\ sampleMutex' = "none"
    /\ loadFile' = 0
    /\ UNCHANGED <<playing, loop, spVolume, spPc, spPos, spVol, spOut, spBlocks,
                   spOps>>
    /\ UNCHANGED notSp

\* Mutant: a load that fails drops the sample loaded before and rewinds.
LoadFinish_FailureClears ==
    /\ loadFile # 0
    /\ LET file == Mp3Files[loadFile]
       IN  IF ~file.opens \/ file.pcm = <<>>
           THEN /\ loadResult' = "false"
                /\ sampleData' = <<>>
                /\ playbackPosition' = 0
           ELSE /\ \E oob \in OutOfBounds :
                      sampleData' = LoadedData(file, oob)
                /\ playbackPosition' = 0
                /\ loadResult' = "true"
    /\ sampleMutex' = "none"
    /\ loadFile' = 0
    /\ UNCHANGED <<playing, loop, spVolume, spPc, spPos, spVol, spOut, spBlocks,
                   spOps>>
    /\ UNCHANGED notSp

\* loadMP3, lines 25-124: read, decode, convert, store, release sampleMutex.
LoadFinish ==
    /\ loadFile # 0
    /\ LET file == Mp3Files[loadFile]
       IN  IF ~file.opens \/ file.pcm = <<>>
           THEN /\ loadResult' = "false"
                /\ UNCHANGED <<sampleData, playbackPosition>>
           ELSE /\ \E oob \in OutOfBounds :
                      sampleData' = LoadedData(file, oob)
                /\ playbackPosition' = 0
                /\ loadResult' = "true"
    /\ sampleMutex' = "none"
    /\ loadFile' = 0
    /\ UNCHANGED <<playing, loop, spVolume, spPc, spPos, spVol, spOut, spBlocks,
                   spOps>>
    /\ UNCHANGED notSp

\* SamplePlayer::trigger.
SamplePlayer_trigger ==
    /\ spOps < MaxSpOps
    /\ spOps' = spOps + 1
    /\ IF sampleData = <<>>
       THEN /\ spRestart' = "refused"
            /\ UNCHANGED <<playbackPosition, playing>>
       ELSE /\ playbackPosition' = 0
            /\ playing' = TRUE
            /\ spRestart' = IF spPc \in {"lock", "copy"} THEN "running" ELSE "armed"
    /\ UNCHANGED <<sampleData, loop, spVolume, sampleMutex, spPc, spPos, spVol,
                   spOut, loadFile, loadResult, spBlocks>>
    /\ UNCHANGED notSpAll

\* SamplePlayer::stop.
SamplePlayer_stop ==
    /\ spOps < MaxSpOps
    /\ spOps' = spOps + 1
    /\ playing' = FALSE
    /\ playbackPosition' = 0
    /\ spRestart' = "none"
    /\ UNCHANGED <<sampleData, loop, spVolume, sampleMutex, spPc, spPos, spVol,
                   spOut, loadFile, loadResult, spBlocks>>
    /\ UNCHANGED notSpAll

\* SamplePlayer::setLoop.
SamplePlayer_setLoop(shouldLoop) ==
    /\ spOps < MaxSpOps
    /\ spOps' = spOps + 1
    /\ loop' = shouldLoop
    /\ UNCHANGED <<sampleData, playing, playbackPosition, spVolume, sampleMutex,
                   spPc, spPos, spVol, spOut, loadFile, loadResult, spBlocks>>
    /\ UNCHANGED notSp

\* SamplePlayer::setVolume.
SamplePlayer_setVolume(vol) ==
    /\ spOps < MaxSpOps
    /\ spOps' = spOps + 1
    /\ spVolume' = clamp(vol, 0, 1000)
    /\ UNCHANGED <<sampleData, playing, loop, playbackPosition, sampleMutex,
                   spPc, spPos, spVol, spOut, loadFile, loadResult, spBlocks>>
    /\ UNCHANGED notSp

\* process(), lines 155-159: silence when not playing or nothing is loaded,
\* otherwise go on to take sampleMutex.  The call is counted against
\* MaxSpBlocks, or (counted = FALSE) the audio thread calls without end.
SpProcessStart(counted) ==
    /\ spPc = "idle"
    /\ IF counted
       THEN /\ spBlocks < MaxSpBlocks
            /\ spBlocks' = spBlocks + 1
       ELSE UNCHANGED spBlocks
    /\ IF ~playing \/ sampleData = <<>>
       THEN /\ spOut' = Silence(SpFrames * 2)
            /\ spPc' = "idle"
            /\ spRestart' = IF spRestart = "armed" THEN "lost" ELSE spRestart
       ELSE /\ spOut' = <<>>
            /\ spPc' = "lock"
            /\ spRestart' = IF spRestart = "armed" THEN "due" ELSE spRestart
    /\ UNCHANGED <<sampleData, playing, loop, playbackPosition, spVolume,
                   sampleMutex, spPos, spVol, loadFile, loadResult, spOps>>
    /\ UNCHANGED notSpAll

SpProcessBegin == SpProcessStart(TRUE)

\* process(), lines 161-165: std::lock_guard on sampleMutex (the audio thread
\* waits here while another thread holds it), then the locals are read.
SpProcessLock ==
    /\ spPc = "lock"
    /\ sampleMutex = "none"
    /\ sampleMutex' = "audio"
    /\ spPos' = playbackPosition
    /\ spVol' = spVolume
    /\ spPc' = "copy"
    /\ UNCHANGED <<sampleData, playing, loop, playbackPosition, spVolume, spOut,
                   loadFile, loadResult, spBlocks, spOps>>
    /\ UNCHANGED notSp

\* process(), lines 167-184: the frame loop.
SpProcessCopy ==
    /\ spPc = "copy"
    /\ LET r == CopyFrames(0, spPos, <<>>, sampleData, spVol, loop)
       IN  /\ spOut' = r.out
           /\ spPos' = r.pos
           /\ playing' = IF r.stopped THEN FALSE ELSE playing
           /\ spRestart' =
                 LET fromStart ==
                         r.out = CopyFrames(0, 0, <<>>, sampleData, spVol, loop).out
                 IN  CASE spRestart = "running" -> IF fromStart THEN "played" ELSE "armed"
                       [] spRestart = "due"     -> IF fromStart THEN "played" ELSE "lost"
                       [] OTHER                 -> spRestart
    /\ spPc' = "store"
    /\ UNCHANGED <<sampleData, loop, playbackPosition, spVolume, sampleMutex,
                   spVol, loadFile, loadResult, spBlocks, spOps>>
    /\ UNCHANGED notSpAll

\* process(), lines 186-187: playbackPosition.store(pos), sampleMutex released.
SpProcessStore ==
    /\ spPc = "store"
    /\ playbackPosition' = spPos
    /\ sampleMutex' = "none"
    /\ spPc' = "idle"
    /\ UNCHANGED <<sampleData, playing, loop, spVolume, spPos, spVol, spOut,
                   loadFile, loadResult, spBlocks, spOps>>
    /\ UNCHANGED notSp

\* ------------------------------------------------------------------------
\* Audio output: start/stop on the main thread, audioLoop on the audio thread
\* ------------------------------------------------------------------------
\* Frames per block handed to the sink (bufferSize) in this specification.
SinkFrames == 2
\* start() calls in one run.
MaxStarts == 2
\* Sink writes in one run.
MaxWrites == 3

\* What snd_pcm_writei can return: a negative error, a short count, or the
\* whole block.
WriteResults == {-1} \cup (1..SinkFrames)

\* AudioOutput::AudioOutput.
AoInit ==
    /\ aoRunning = FALSE
    /\ audioThread = "none"
    /\ aoPc = "off"
    /\ pcm = "closed"
    /\ totalBuffers = 0
    /\ underruns = 0
    /\ frames = 0
    /\ recoverCalls = 0
    /\ underBefore = 0
    /\ recBefore = 0
    /\ stopPc = "idle"
    /\ startResult = "none"
    /\ aoTerminated = FALSE
    /\ aoStarts = 0
    /\ aoWrites = 0
    /\ setupResult = "none"
    /\ stopReturned = FALSE
    /\ aoAlive = TRUE

\* AudioOutput::start.  Assigning to a std::thread that is still joinable
\* calls std::terminate.
AudioOutput_start ==
    /\ ~aoTerminated
    /\ stopPc = "idle"
    /\ aoStarts < MaxStarts
    /\ aoStarts' = aoStarts + 1
    /\ startResult' = "true"
    /\ IF aoRunning
       THEN UNCHANGED <<aoRunning, audioThread, aoPc, aoTerminated>>
       ELSE /\ aoRunning' = TRUE
            /\ IF audioThread # "none"
               THEN /\ aoTerminated' = TRUE
                    /\ UNCHANGED <<audioThread, aoPc>>
               ELSE /\ audioThread' = "running"
                    /\ aoPc' = "open"
                    /\ UNCHANGED aoTerminated
    /\ UNCHANGED <<pcm, totalBuffers, underruns, frames, recoverCalls,
                   underBefore, recBefore, stopPc, aoWrites>>
    /\ aoAlive
    /\ stopReturned' = FALSE
    /\ setupResult' = IF ~aoRunning /\ audioThread = "none" THEN "none" ELSE setupResult
    /\ UNCHANGED aoAlive
    /\ UNCHANGED notAo

\* audioLoop(), lines 89-96: snd_pcm_open.
AoOpen(ok) ==
    /\ ~aoTerminated
    /\ aoPc = "open"
    /\ IF ok
       THEN /\ pcm' = "open"
            /\ aoPc' = "params"
            /\ UNCHANGED <<aoRunning, audioThread>>
       ELSE /\ aoRunning' = FALSE
            /\ aoPc' = "off"
            /\ audioThread' = "finished"
            /\ UNCHANGED pcm
    /\ UNCHANGED <<totalBuffers, underruns, frames, recoverCalls, underBefore,
                   recBefore, stopPc, startResult, aoTerminated, aoStarts, aoWrites>>
    /\ setupResult' = IF ok THEN setupResult ELSE "failed"
    /\ UNCHANGED <<stopReturned, aoAlive>>
    /\ UNCHANGED notAo

\* audioLoop(), lines 98-117: snd_pcm_hw_params.
AoHwParams(ok) ==
    /\ ~aoTerminated
    /\ aoPc = "params"
    /\ IF ok
       THEN /\ aoPc' = "prepare"
            /\ UNCHANGED <<aoRunning, audioThread, pcm>>
       ELSE /\ pcm' = "closed"
            /\ aoRunning' = FALSE
            /\ aoPc' = "off"
            /\ audioThread' = "finished"
    /\ UNCHANGED <<totalBuffers, underruns, frames, recoverCalls, underBefore,
                   recBefore, stopPc, startResult, aoTerminated, aoStarts, aoWrites>>
    /\ setupResult' = IF ok THEN setupResult ELSE "failed"
    /\ UNCHANGED <<stopReturned, aoAlive>>
    /\ UNCHANGED notAo

\* audioLoop(), lines 119-126: snd_pcm_prepare.
AoPrepare(ok) ==
    /\ ~aoTerminated
    /\ aoPc = "prepare"
    /\ IF ok
       THEN /\ pcm' = "prepared"
            /\ aoPc' = "test"
            /\ UNCHANGED <<aoRunning, audioThread>>
       ELSE /\ pcm' = "closed"
            /\ aoRunning' = FALSE
            /\ aoPc' = "off"
            /\ audioThread' = "finished"
    /\ UNCHANGED <<totalBuffers, underruns, frames, recoverCalls, underBefore,
                   recBefore, stopPc, startResult, aoTerminated, aoStarts, aoWrites>>
    /\ setupResult' = IF ok THEN "ok" ELSE "failed"
    /\ UNCHANGED <<stopReturned, aoAlive>>
    /\ UNCHANGED notAo

\* audioLoop(), line 137: while (running.load()).
AoLoopTest ==
    /\ ~aoTerminated
    /\ aoPc = "test"
    /\ aoRunning => aoWrites < MaxWrites
    /\ aoPc' = IF aoRunning THEN "write" ELSE "drain"
    /\ UNCHANGED <<aoRunning, audioThread, pcm, totalBuffers, underruns, frames,
                   recoverCalls, underBefore, recBefore, stopPc, startResult,
                   aoTerminated, aoStarts, aoWrites>>
    /\ UNCHANGED <<setupResult, stopReturned, aoAlive>>
    /\ UNCHANGED notAo

\* audioLoop(), lines 140-164: the block is produced and converted, written
\* with snd_pcm_writei, and a negative return is counted and recovered.
AoWrite(written, recovered) ==
    /\ ~aoTerminated
    /\ aoPc = "write"
    /\ aoWrites' = aoWrites + 1
    /\ frames' = written
    /\ underBefore' = underruns
    /\ recBefore' = recoverCalls
    /\ IF written < 0
       THEN /\ underruns' = underruns + 1
            /\ recoverCalls' = recoverCalls + 1
            /\ pcm' = IF recovered THEN "prepared" ELSE "xrun"
       ELSE UNCHANGED <<underruns, recoverCalls, pcm>>
    /\ aoPc' = "count"
    /\ UNCHANGED <<aoRunning, audioThread, totalBuffers, stopPc, startResult,
                   aoTerminated, aoStarts>>
    /\ UNCHANGED <<setupResult, stopReturned, aoAlive>>
    /\ UNCHANGED notAo

\* audioLoop(), lines 166-190: totalBuffers.fetch_add(1), debug output, CPU
\* usage, and back to the loop test.
AoCount ==
    /\ ~aoTerminated
    /\ aoPc = "count"
    /\ totalBuffers' = totalBuffers + 1
    /\ aoPc' = "test"
    /\ UNCHANGED <<aoRunning, audioThread, pcm, underruns, frames, recoverCalls,
                   underBefore, recBefore, stopPc, startResult, aoTerminated,
                   aoStarts, aoWrites>>
    /\ UNCHANGED <<setupResult, stopReturned, aoAlive>>
    /\ UNCHANGED notAo

\* audioLoop(), line 194: snd_pcm_drain.
AoDrain ==
    /\ ~aoTerminated
    /\ aoPc = "drain"
    /\ pcm' = "drained"
    /\ aoPc' = "close"
    /\ UNCHANGED <<aoRunning, audioThread, totalBuffers, underruns, frames,
                   recoverCalls, underBefore, recBefore, stopPc, startResult,
                   aoTerminated, aoStarts, aoWrites>>
    /\ UNCHANGED <<setupResult, stopReturned, aoAlive>>
    /\ UNCHANGED notAo

\* audioLoop(), line 195: snd_pcm_close, and the thread function returns.
AoClose ==
    /\ ~aoTerminated
    /\ aoPc = "close"
    /\ pcm' = "closed"
    /\ aoPc' = "off"
    /\ audioThread' = "finished"
    /\ UNCHANGED <<aoRunning, totalBuffers, underruns, frames, recoverCalls,
                   underBefore, recBefore, stopPc, startResult, aoTerminated,
                   aoStarts, aoWrites>>
    /\ UNCHANGED <<setupResult, stopReturned, aoAlive>>
    /\ UNCHANGED notAo

\* AudioOutput::stop, lines 60-64: return when not running, else clear the
\* running flag.
AudioOutput_stopBegin ==
    /\ ~aoTerminated
    /\ stopPc = "idle"
    /\ aoStarts > 0
    /\ IF aoRunning
       THEN /\ aoRunning' = FALSE
            /\ stopPc' = "join"
       ELSE UNCHANGED <<aoRunning, stopPc>>
    /\ UNCHANGED <<audioThread, aoPc, pcm, totalBuffers, underruns, frames,
                   recoverCalls, underBefore, recBefore, startResult,
                   aoTerminated, aoStarts, aoWrites>>
    /\ aoAlive
    /\ stopReturned' = ~aoRunning
    /\ UNCHANGED <<setupResult, aoAlive>>
    /\ UNCHANGED notAo

\* Mutant: stop() returns without waiting for the audio thread.
AudioOutput_stopJoin_NoWait ==
    /\ ~aoTerminated
    /\ stopPc = "join"
    /\ audioThread' = "none"
    /\ stopPc' = "idle"
    /\ UNCHANGED <<aoRunning, aoPc, pcm, totalBuffers, underruns, frames,
                   recoverCalls, underBefore, recBefore, startResult,
                   aoTerminated, aoStarts, aoWrites>>
    /\ stopReturned' = TRUE
    /\ UNCHANGED <<setupResult, aoAlive>>
    /\ UNCHANGED notAo

\* AudioOutput::stop, lines 66-81: join the audio thread if joinable, print
\* the statistics.
AudioOutput_stopJoin ==
    /\ ~aoTerminated
    /\ stopPc = "join"
    /\ audioThread # "running"
    /\ audioThread' = "none"
    /\ stopPc' = "idle"
    /\ UNCHANGED <<aoRunning, aoPc, pcm, totalBuffers, underruns, frames,
                   recoverCalls, underBefore, recBefore, startResult,
                   aoTerminated, aoStarts, aoWrites>>
    /\ stopReturned' = TRUE
    /\ UNCHANGED <<setupResult, aoAlive>>
    /\ UNCHANGED notAo

\* AudioOutput::~AudioOutput called while running is false: its stop() returns
\* at once, then the members are destroyed.  Destroying a std::thread that is
\* still joinable calls std::terminate.  (While running is true the
\* destructor's stop() is the two steps above, followed by this one.)
AudioOutput_destroy ==
    /\ aoAlive
    /\ ~aoTerminated
    /\ stopPc = "idle"
    /\ aoStarts > 0
    /\ ~aoRunning
    /\ stopReturned' = TRUE
    /\ IF audioThread # "none"
       THEN /\ aoTerminated' = TRUE
            /\ UNCHANGED aoAlive
       ELSE /\ aoAlive' = FALSE
            /\ UNCHANGED aoTerminated
    /\ UNCHANGED <<aoRunning, audioThread, aoPc, pcm, totalBuffers, underruns,
                   frames, recoverCalls, underBefore, recBefore, stopPc,
                   startResult, aoStarts, aoWrites, setupResult>>
    /\ UNCHANGED notAo

\* ------------------------------------------------------------------------
\* Chamber reverb, DC blocker and the output of an engine that is constructed
\* and never triggered
\* ------------------------------------------------------------------------
\* Sample amplitudes in this part are integers in units of 1e-24, so that the
\* anti-denormal constant 1e-20 and its fractions are representable.  The
\* sample rate and the block size are scaled together: SilentFrames frames
\* at SilentRate Hz last as long as 256 frames at 48 kHz, and every delay
\* length is computed from the rate as the constructors compute it.
SilentRate == 750
SilentFrames == 4
\* process() calls in the silent run.
MaxSilentBlocks == 10

\* static constexpr float ANTI_DENORMAL = 1e-20f.
ANTI_DENORMAL == 10000

\* Full scale (1.0) lies far above every amplitude this part reaches; the
\* clamp is kept with a bound of 1e-15.
SampleLimit == 1000000000

\* clampSample(x).
clampSample(x) == clamp(x, -SampleLimit, SampleLimit)

\* x * num / den, rounded toward zero.
Mul(x, num, den) ==
    IF x >= 0 THEN (x * num) \div den ELSE -(((-x) * num) \div den)

\* static_cast<int>(x) of a value x given in halves: rounds toward zero.
TruncHalves(h) == IF h >= 0 THEN h \div 2 ELSE -((-h) \div 2)

\* What a read outside a buffer can yield.
StrayReads == {0, 12345}

\* buffer[index] for a zero-based index; stray is what a read outside the
\* buffer yields.
ReadAt(buffer, index, stray) ==
    IF index >= 0 /\ index < Len(buffer) THEN buffer[index + 1] ELSE stray

\* std::vector<float>(n, 0.0f).
RECURSIVE Zeros(_)
Zeros(n) == IF n = 0 THEN <<>> ELSE Append(Zeros(n - 1), 0)

\* AllpassFilter::AllpassFilter(delaySamples).
NewAllpass(delaySamples) ==
    [buffer |-> Zeros(delaySamples), writePos |-> 0,
     delaySamples |-> delaySamples]

\* AllpassFilter::process(input): the filter afterwards and the output.
AllpassFilter_process(ap, input) ==
    LET size == Len(ap.buffer)
        readPos == CRem(ap.writePos - ap.delaySamples + size, size)
        delayed == ap.buffer[readPos + 1]
        out == -input + delayed + Mul(input - delayed, 1, 2)
        written == clampSample(input + Mul(delayed, 1, 2)) + ANTI_DENORMAL
    IN  [ap |-> [ap EXCEPT !.buffer[ap.writePos + 1] = written,
                           !.writePos = CRem(ap.writePos + 1, size)],
         out |-> out]

\* The modulation phase is kept in eighths of a cycle; modDepthSamples *
\* sin(modPhase) in halves of a sample for each eighth.
ModOffsetHalves == <<0, 3, 4, 3, 0, -3, -4, -3>>

\* Samples after which modPhase has advanced by an eighth of a cycle:
\* TWO_PI * modRate / sampleRate per sample, modRate = 0.3.
ModTicksPerEighth == (SilentRate * 10) \div 24

\* DampedCombFilter::DampedCombFilter(sampleRate, delayTime), delayTime in
\* units of 0.1 ms, with the random starting phase it draws.
NewComb(delayTime, phase) ==
    [buffer |-> Zeros((delayTime * SilentRate) \div 10000),
     writePos |-> 0,
     delaySamples |-> (delayTime * SilentRate) \div 10000,
     feedback |-> 700, damping |-> 500, damperState |-> 0,
     modPhase |-> phase, modTick |-> 0]

\* DampedCombFilter::process, lines 61-71: readPosFloat in halves of a sample.
CombReadPosFloat(cf) ==
    LET raw == 2 * cf.writePos - 2 * cf.delaySamples + ModOffsetHalves[cf.modPhase + 1]
    IN IF raw < 0 THEN raw + 2 * Len(cf.buffer) ELSE raw

\* process, lines 73-74: the two indices read for the interpolation.
CombReadPosInt(cf) == CRem(TruncHalves(CombReadPosFloat(cf)), Len(cf.buffer))
CombReadPosNext(cf) == CRem(CombReadPosInt(cf) + 1, Len(cf.buffer))

\* DampedCombFilter::process(input): the filter afterwards and the output.
DampedCombFilter_process(cf, input, stray) ==
    LET size == Len(cf.buffer)
        tick == cf.modTick + 1
        readPosFloat == CombReadPosFloat(cf)
        readPosInt == CombReadPosInt(cf)
        readPosNext == CombReadPosNext(cf)
        frac == readPosFloat - 2 * (readPosFloat \div 2)
        delayed == (ReadAt(cf.buffer, readPosInt, stray) * (2 - frac)
                    + ReadAt(cf.buffer, readPosNext, stray) * frac) \div 2
        dampingCoeff == 1000 - cf.damping \div 2
        damper == clampSample(Mul(delayed, dampingCoeff, 1000)
                              + Mul(cf.damperState, 1000 - dampingCoeff, 1000))
                  + ANTI_DENORMAL
        written == clampSample(input + Mul(damper, cf.feedback, 1000)) + ANTI_DENORMAL
    IN  [cf |-> [cf EXCEPT !.buffer[cf.writePos + 1] = written,
                           !.writePos = CRem(cf.writePos + 1, size),
                           !.damperState = damper,
                           !.modPhase = IF tick = ModTicksPerEighth
                                        THEN (cf.modPhase + 1) % 8 ELSE cf.modPhase,
                           !.modTick = IF tick = ModTicksPerEighth THEN 0 ELSE tick],
         out |-> delayed]

\* ReverbEffect::ReverbEffect: the delay times of the early reflections (ms)
\* and of the comb filters (0.1 ms).
earlyReflectionTimes == <<13, 19, 23, 29, 37, 43, 51, 59>>
combDelayTimes == <<297, 371, 411, 437, 503, 571>>

\* ReverbEffect::updateParameters: baseFeedback = 0.4 + size * 0.45.
baseFeedback(size) == 400 + (size * 450) \div 1000

\* Starting phases the comb filters may draw.
InitialModPhases == {1, 6}

\* ReverbEffect::processEarlyReflections for one sample: the taps afterwards
\* and output[i].
RECURSIVE EarlyTaps(_, _, _, _)
EarlyTaps(taps, input, j, earlySum) ==
    IF j > Len(taps) THEN [taps |-> taps, out |-> Mul(earlySum, 1, Len(taps))]
    ELSE LET tap == taps[j]
             attenuation == 700 - (j - 1) * 50
             next == [tap EXCEPT
                        !.buf[tap.wPos + 1] = clampSample(Mul(input, attenuation, 1000)),
                        !.wPos = CRem(tap.wPos + 1, Len(tap.buf))]
         IN  EarlyTaps([taps EXCEPT ![j] = next], input, j + 1,
                       earlySum + tap.buf[tap.wPos + 1])

\* ReverbEffect::process, lines 188-194, for one sample: the comb filters
\* afterwards and combSum.
RECURSIVE CombBank(_, _, _, _, _)
CombBank(combs, input, stray, j, combSum) ==
    IF j > Len(combs) THEN [combs |-> combs, out |-> Mul(combSum, 1, Len(combs))]
    ELSE LET r == DampedCombFilter_process(combs[j], input, stray)
         IN  CombBank([combs EXCEPT ![j] = r.cf], input, stray, j + 1,
                      combSum + r.out)

\* ReverbEffect::process(input, output, 1): the reverb afterwards and the
\* output sample.  st holds the allpass filters, comb filters and early taps.
ReverbEffect_process(st, input, dryWet, stray) ==
    LET early == EarlyTaps(st.earlyTaps, input, 1, 0)
        d1 == AllpassFilter_process(st.allpass[1], input)
        d2 == AllpassFilter_process(st.allpass[2], d1.out)
        combs == CombBank(st.combFilters, d2.out, stray, 1, 0)
        d3 == AllpassFilter_process(st.allpass[3], combs.out)
        wet == Mul(early.out, 150, 1000) + d3.out
    IN  [st |-> [allpass |-> <<d1.ap, d2.ap, d3.ap>>,
                 combFilters |-> combs.combs,
                 earlyTaps |-> early.taps],
         out |-> Mul(input, 1000 - dryWet, 1000) + Mul(wet, dryWet, 1000)]

\* DCBlocker::process for one sample: y[n] = x[n] - x[n-1] + 0.995 * y[n-1].
DCBlocker_process(dc, x) ==
    LET y == x - dc.x1 + Mul(dc.y1, 995, 1000)
    IN  [dc |-> [x1 |-> x, y1 |-> y], out |-> y]

\* Delay::process for one sample whose delay line holds only zeros:
\* read = 0, write = clamp(input + read * g), output = input * (1 - m) + read * m.
DelayOfEmptyLine(input, dryWetMix) == Mul(input, 1000 - dryWetMix, 1000)

\* process(), lines 72-79: the hard gate on the envelope.
Gate(filtered, env) == IF env < 1 THEN 0 ELSE Mul(filtered, env, 1000)

\* process(), lines 71-96, for frames i..numFrames of a block on an engine
\* whose envelope is idle: the reverb and DC blocker afterwards and the
\* interleaved output.  Whatever the filter produced is replaced by the gate.
RECURSIVE SilentFramesFrom(_, _, _, _, _, _)
SilentFramesFrom(i, numFrames, st, dc, out, stray) ==
    IF i > numFrames THEN [st |-> st, dc |-> dc, out |-> out]
    ELSE LET gated == Gate(0, envLevel)
             delayed == DelayOfEmptyLine(gated, 300)
             rev == ReverbEffect_process(st, delayed, eng.reverbDryWet, stray)
             blocked == DCBlocker_process(dc, rev.out)
             sample == clampSample(Mul(blocked.out, eng.volume, 1000))
         IN  SilentFramesFrom(i + 1, numFrames, rev.st, blocked.dc,
                              out \o <<sample, sample>>, stray)

\* The reverb and the DC blocker before the comb filters are constructed.
RvInit ==
    /\ allpass = <<NewAllpass((5 * SilentRate) \div 1000),
                   NewAllpass((89 * SilentRate) \div 10000),
                   NewAllpass((67 * SilentRate) \div 10000)>>
    /\ combFilters = <<>>
    /\ earlyTaps = [j \in 1..Len(earlyReflectionTimes) |->
                      [buf |-> Zeros((earlyReflectionTimes[j] * SilentRate) \div 1000),
                       wPos |-> 0]]
    /\ dcBlocker = [x1 |-> 0, y1 |-> 0]
    /\ silentOut = <<>>
    /\ silentBlocks = 0

\* ReverbEffect::ReverbEffect, lines 114-130: the comb filters are created,
\* each drawing its starting phase, and updateParameters sets their feedback
\* and damping.
ReverbEffect_construct(phases) ==
    /\ combFilters = <<>>
    /\ combFilters' =
          [j \in 1..Len(combDelayTimes) |->
              [NewComb(combDelayTimes[j], phases[j])
                  EXCEPT !.feedback = baseFeedback(500), !.damping = 500]]
    /\ UNCHANGED <<allpass, earlyTaps, dcBlocker, silentOut, silentBlocks>>
    /\ UNCHANGED notRv

\* One process() call on the engine, never triggered, all control values as
\* constructed.
SilentBlock(stray) ==
    /\ silentBlocks < MaxSilentBlocks
    /\ combFilters # <<>>
    /\ envStage = "Idle"
    /\ LET r == SilentFramesFrom(1, SilentFrames,
                                 [allpass |-> allpass, combFilters |-> combFilters,
                                  earlyTaps |-> earlyTaps],
                                 dcBlocker, <<>>, stray)
       IN  /\ allpass' = r.st.allpass
           /\ combFilters' = r.st.combFilters
           /\ earlyTaps' = r.st.earlyTaps
           /\ dcBlocker' = r.dc
           /\ silentOut' = r.out
    /\ silentBlocks' = silentBlocks + 1
    /\ UNCHANGED notRv

\* ------------------------------------------------------------------------
\* Control primitives: MomentarySwitch and RotaryEncoder
\* ------------------------------------------------------------------------
DEBOUNCE_MS == 10
MIN_PRESS_MS == 30

\* Time from one poll of a switch to the next: the 2 ms sleep, or longer
\* when the thread is scheduled late.
PollGapsMs == {2, 5}

\* Pin levels.
Levels == {0, 1}

\* An age advanced by dt, counted up to cap.
Age(x, dt, cap) == IF x + dt > cap THEN cap ELSE x + dt

\* Mutant: no debounce window.
SwitchEvent_NoDebounce(state, isPressed, elapsed, pressDuration) ==
    IF state = 0 /\ ~isPressed THEN "press"
    ELSE IF state = 1 /\ isPressed /\ pressDuration >= MIN_PRESS_MS THEN "release"
    ELSE "none"

\* Mutant: a LOW level is a press whether or not one is registered.
SwitchEvent_LevelOnly(state, isPressed, elapsed, pressDuration) ==
    IF elapsed < DEBOUNCE_MS THEN "none"
    ELSE IF state = 0 THEN "press"
    ELSE IF state = 1 /\ isPressed /\ pressDuration >= MIN_PRESS_MS THEN "release"
    ELSE "none"

\* Mutant: a HIGH level never ends a press.
SwitchEvent_NoRelease(state, isPressed, elapsed, pressDuration) ==
    IF elapsed < DEBOUNCE_MS THEN "none"
    ELSE IF state = 0 /\ ~isPressed THEN "press"
    ELSE "none"

\* pollLoop, lines 268-289: the event one poll emits.
SwitchEvent(state, isPressed, elapsed, pressDuration) ==
    IF elapsed < DEBOUNCE_MS THEN "none"
    ELSE IF state = 0 /\ ~isPressed THEN "press"
    ELSE IF state = 1 /\ isPressed /\ pressDuration >= MIN_PRESS_MS THEN "release"
    ELSE "none"

\* MomentarySwitch::MomentarySwitch: not pressed, HIGH assumed, both times now.
SwInit ==
    /\ swRunning = "new"
    /\ swPc = "poll"
    /\ pressed = FALSE
    /\ lastState = 1
    /\ sinceLastChange = 0
    /\ sincePress = 0
    /\ swRead = -1
    /\ swRunMs = 0
    /\ swPressMs = 0
    /\ swEmitted = "none"
    /\ swLastEvent = "none"
    /\ swLetGoEarly = FALSE

\* What the control primitives leave unchanged.
notHw == <<ctlVars, eng, spVars, aoVars, rvVars, stVars, fbVars, lcVars, cyVars, sdVars, tgVars, gtVars, wbVars, gsVars, heVars>>
engRest == <<procPc, baseCutoff, lfoDepth, envLevel, output, blocks, ctlOps,
             cutoffWritten, writesThisBlock>>
apiRest == <<baseFrequency, pitchEnvMode, frequencySmooth, oscFrequencies,
             triggerFrame, lastCall>>

\* MomentarySwitch::start: in the pigpio build the pin is read into lastState
\* (readsPin), in the other builds it is not; the poll thread is started.
MomentarySwitch_start(readsPin, level) ==
    /\ swRunning = "new"
    /\ swRunning' = "running"
    /\ IF readsPin
       THEN /\ lastState' = level
            /\ swRead' = level
       ELSE UNCHANGED <<lastState, swRead>>
    /\ UNCHANGED <<swPc, pressed, sinceLastChange, sincePress, swRunMs, swPressMs,
                   swEmitted, swLastEvent, swLetGoEarly>>
    /\ UNCHANGED <<encVars, engVars, apiVars, notHw>>

\* MomentarySwitch::stop: the poll thread is told to end and joined.
MomentarySwitch_stop ==
    /\ swRunning = "running"
    /\ swRunning' = "stopped"
    /\ UNCHANGED <<swPc, pressed, lastState, sinceLastChange, sincePress, swRead,
                   swRunMs, swPressMs, swEmitted, swLastEvent, swLetGoEarly>>
    /\ UNCHANGED <<encVars, engVars, apiVars, notHw>>

\* One iteration of MomentarySwitch::pollLoop of the trigger button up to
\* its sleep, reading level state from the pin.  The press callback is
\* GPIOController::onTriggerPress (engine.trigger()), the release callback
\* GPIOController::onTriggerRelease (engine.release()).
MomentarySwitch_pollLoop(state) ==
    /\ swRunning = "running"
    /\ swPc = "poll"
    /\ swPc' = "sleep"
    /\ LET elapsed == IF state # lastState THEN 0 ELSE sinceLastChange
           pressDuration == sincePress
           event == SwitchEvent(state, pressed, elapsed, pressDuration)
       IN  /\ lastState' = state
           /\ sinceLastChange' = elapsed
           /\ pressed' = CASE event = "press"   -> TRUE
                            [] event = "release" -> FALSE
                            [] OTHER             -> pressed
           /\ sincePress' = IF event = "press" THEN 0 ELSE sincePress
           /\ swEmitted' = event
           /\ swLetGoEarly' =
                 IF event = "press" THEN FALSE
                 ELSE swLetGoEarly \/ (state = 1 /\ pressed /\ pressDuration < MIN_PRESS_MS)
           /\ swPressMs' = IF event = "press" THEN 0 ELSE swPressMs
           /\ envStage' = CASE event = "press"   -> EnvTrigger(envStage)
                             [] event = "release" -> EnvRelease(envStage)
                             [] OTHER             -> envStage
           /\ oscPhase' = IF event = "press" THEN 0 ELSE oscPhase
           /\ triggerArmed' = IF event = "press" THEN TRUE ELSE triggerArmed
           /\ lastCtlWrite' =
                 CASE event = "press" ->
                        [objs |-> {"oscillator", "envelope"}, during |-> procPc # "idle"]
                   [] event = "release" ->
                        [objs |-> {"envelope"}, during |-> procPc # "idle"]
                   [] OTHER -> lastCtlWrite
    /\ swRead' = state
    /\ swRunMs' = IF swRead = state THEN swRunMs ELSE 0
    /\ swLastEvent' = IF swEmitted # "none" THEN swEmitted ELSE swLastEvent
    /\ UNCHANGED <<swRunning, encVars, engRest, apiRest, notHw>>

\* pollLoop, lines 270 and 291: sleep_for(2 ms); dt ms pass until the next
\* iteration.
MomentarySwitch_sleep(dt) ==
    /\ swRunning = "running"
    /\ swPc = "sleep"
    /\ swPc' = "poll"
    /\ sinceLastChange' = Age(sinceLastChange, dt, DEBOUNCE_MS)
    /\ sincePress' = Age(sincePress, dt, MIN_PRESS_MS)
    /\ swRunMs' = Age(swRunMs, dt, DEBOUNCE_MS)
    /\ swPressMs' = Age(swPressMs, dt, MIN_PRESS_MS)
    /\ UNCHANGED <<swRunning, pressed, lastState, swRead, swEmitted, swLastEvent,
                   swLetGoEarly>>
    /\ UNCHANGED <<encVars, engVars, apiVars, notHw>>

\* Mutant: the direction is taken the other way round.
TickDirection_Reversed(clkState, dtState) == IF dtState # clkState THEN -1 ELSE 1

\* RotaryEncoder::update, lines 200-206: the direction of a CLK edge.
TickDirection(clkState, dtState) == IF dtState # clkState THEN 1 ELSE -1

\* update() calls in one run.
MaxEncPolls == 4

\* RotaryEncoder::RotaryEncoder: position 0, both lines assumed HIGH.
EncInit ==
    /\ encRunning = "new"
    /\ lastClk = 1
    /\ lastDt = 1
    /\ position = 0
    /\ encClkRead = -1
    /\ encEmitted = 0
    /\ encTicks = <<>>
    /\ encPolls = 0
    /\ encPinRead = -1

\* RotaryEncoder::start: in the pigpio build both pins are read into lastClk
\* and lastDt (readsPins), in the other builds they are not; the poll thread
\* is started.
RotaryEncoder_start(readsPins, clk, dt) ==
    /\ encRunning = "new"
    /\ encRunning' = "running"
    /\ IF readsPins
       THEN /\ lastClk' = clk
            /\ lastDt' = dt
            /\ encPinRead' = clk
       ELSE UNCHANGED <<lastClk, lastDt, encPinRead>>
    /\ UNCHANGED <<position, encClkRead, encEmitted, encTicks, encPolls>>
    /\ UNCHANGED <<swVars, engVars, apiVars, notHw>>

\* RotaryEncoder::update, called by pollLoop: both pins are read; on a CLK
\* level other than lastClk the position moves by the direction and the
\* callback is called with it.
RotaryEncoder_update(clkState, dtState) ==
    /\ encRunning = "running"
    /\ encPolls < MaxEncPolls
    /\ encPolls' = encPolls + 1
    /\ IF clkState # lastClk
       THEN /\ position' = position + TickDirection(clkState, dtState)
            /\ encEmitted' = TickDirection(clkState, dtState)
            /\ encTicks' = Append(encTicks, TickDirection(clkState, dtState))
       ELSE /\ encEmitted' = 0
            /\ UNCHANGED <<position, encTicks>>
    /\ lastClk' = clkState
    /\ lastDt' = dtState
    /\ encClkRead' = clkState
    /\ encPinRead' = clkState
    /\ UNCHANGED <<encRunning, swVars, engVars, apiVars, notHw>>

\* getStats calls in one run.
MaxStatsCalls == 2

\* No Stats value returned yet.
NoStats == [totalBuffers |-> 0, underruns |-> 0, returned |-> FALSE]

GsInit ==
    /\ statsPc = "idle"
    /\ stats = NoStats
    /\ statsCalls = 0

\* getStats, line 201: totalBuffers.load(), the first member of the value.
getStats_loadTotal ==
    /\ aoAlive
    /\ statsPc = "idle"
    /\ statsCalls < MaxStatsCalls
    /\ statsCalls' = statsCalls + 1
    /\ stats' = [totalBuffers |-> totalBuffers, underruns |-> 0, returned |-> FALSE]
    /\ statsPc' = "underruns"
    /\ UNCHANGED <<ctlVars, eng, engVars, spVars, aoVars, rvVars, stVars, apiVars,
                   hwVars, fbVars, lcVars, cyVars, sdVars, tgVars, gtVars, wbVars, heVars>>

\* getStats, lines 202-204: underruns.load(), and the value is returned.
getStats_loadUnderruns ==
    /\ statsPc = "underruns"
    /\ stats' = [stats EXCEPT !.underruns = underruns, !.returned = TRUE]
    /\ statsPc' = "idle"
    /\ UNCHANGED statsCalls
    /\ UNCHANGED <<ctlVars, eng, engVars, spVars, aoVars, rvVars, stVars, apiVars,
                   hwVars, fbVars, lcVars, cyVars, sdVars, tgVars, gtVars, wbVars, heVars>>

\* ---------------------------------------------------------------------------
\* The encoder poll threads inside handleEncoder, next to the shift button
\* ---------------------------------------------------------------------------

\* handleEncoder calls in one run, over all encoders.
MaxHandlerCalls == 2

HeInit ==
    /\ hePc = [i \in Encoders |-> "idle"]
    /\ heBank = [i \in Encoders |-> "A"]
    /\ heDir = [i \in Encoders |-> 0]
    /\ heNew = [i \in Encoders |-> 0]
    /\ heLog = [f \in ParamFields |-> <<>>]
    /\ heWriters = [f \in ParamFields |-> {}]
    /\ heCalls = 0

\* The field the handler running on encoder i's thread works on.
heField(i) == paramName(heBank[i], i)

\* handleEncoder, line 422: the poll thread of encoder i enters with a tick
\* and loads currentBank; the bank fixes the field for the whole call.
handleEncoder_loadBank(i, direction) ==
    /\ encodersUp
    /\ hePc[i] = "idle"
    /\ heCalls < MaxHandlerCalls
    /\ heCalls' = heCalls + 1
    /\ hePc' = [hePc EXCEPT ![i] = "bank"]
    /\ heBank' = [heBank EXCEPT ![i] = currentBank]
    /\ heDir' = [heDir EXCEPT ![i] = direction]
    /\ heLog' = [heLog EXCEPT ![paramName(currentBank, i)] = Append(@, direction)]
    /\ UNCHANGED <<heNew, heWriters>>
    /\ UNCHANGED <<ctlVars, eng, notHe>>

\* handleEncoder, lines 435-493: the right-hand side, params.<field> read
\* and stepped.
handleEncoder_readField(i) ==
    /\ hePc[i] = "bank"
    /\ hePc' = [hePc EXCEPT ![i] = "value"]
    /\ heNew' = [heNew EXCEPT ![i] = TickValue(heField(i), params[heField(i)], heDir[i])]
    /\ UNCHANGED <<heBank, heDir, heLog, heWriters, heCalls>>
    /\ UNCHANGED <<ctlVars, eng, notHe>>

\* handleEncoder: the assignment to params.<field>.
handleEncoder_storeField(i) ==
    /\ hePc[i] = "value"
    /\ hePc' = [hePc EXCEPT ![i] = "stored"]
    /\ params' = [params EXCEPT ![heField(i)] = heNew[i]]
    /\ heWriters' = [heWriters EXCEPT ![heField(i)] = @ \cup {i}]
    /\ UNCHANGED <<heBank, heDir, heNew, heLog, heCalls>>
    /\ UNCHANGED <<currentBank, shiftPressed, ctlRunning, startPc, startArg,
                   encodersUp, buttonsUp, ticks, lastShiftEvent, prevShiftEvent,
                   lastTick, eng, notHe>>

\* handleEncoder: engine.setX(params.<field>) and return.
handleEncoder_callSetter(i) ==
    /\ hePc[i] = "stored"
    /\ hePc' = [hePc EXCEPT ![i] = "idle"]
    /\ eng' = CallSetter(eng, EngineSetterOf(heField(i)), params[heField(i)])
    /\ UNCHANGED <<heBank, heDir, heNew, heLog, heWriters, heCalls>>
    /\ UNCHANGED <<ctlVars, notHe>>

\* ---------------------------------------------------------------------------
\* The comb feedback gain set by the reverb's size, in thousandths.
\* ---------------------------------------------------------------------------

MaxSizeCalls == 3

\* Sizes handed to setSize: below, inside, at the ends of and above [0, 1].
SizeInputs == {-500, 0, 100, 250, 500, 750, 900, 999, 1000, 1500}

SCALE_ROOM == 280
OFFSET_ROOM == 700

\* The Freeverb ReverbEffect::updateCoefficients, its feedback line:
\* feedback = roomSize * SCALE_ROOM + OFFSET_ROOM, set to 0.98 when above 0.98.
updateCoefficients(rs) ==
    LET fb == (rs * SCALE_ROOM) \div 1000 + OFFSET_ROOM
    IN IF fb > 980 THEN 980 ELSE fb

\* Both constructors finish with the update from the default size 0.5.
FbInit ==
    /\ chamberSize = 500
    /\ chamberFeedback = baseFeedback(500)
    /\ roomSize = 500
    /\ feedback = updateCoefficients(500)
    /\ sizeCalls = 0

\* The chamber's ReverbEffect::setSize: clamp, then updateParameters().
Chamber_setSize(s) ==
    /\ sizeCalls < MaxSizeCalls
    /\ sizeCalls' = sizeCalls + 1
    /\ chamberSize' = ReverbSetSize(s)
    /\ chamberFeedback' = baseFeedback(chamberSize')
    /\ UNCHANGED <<roomSize, feedback>>
    /\ UNCHANGED <<ctlVars, eng, engVars, spVars, aoVars, rvVars, stVars, apiVars, hwVars, lcVars, cyVars, sdVars, tgVars, gtVars, wbVars, gsVars, heVars>>

\* The Freeverb ReverbEffect::setSize: clamp, then updateCoefficients().
Freeverb_setSize(s) ==
    /\ sizeCalls < MaxSizeCalls
    /\ sizeCalls' = sizeCalls + 1
    /\ roomSize' = clamp(s, 0, 1000)
    /\ feedback' = updateCoefficients(roomSize')
    /\ UNCHANGED <<chamberSize, chamberFeedback>>
    /\ UNCHANGED <<ctlVars, eng, engVars, spVars, aoVars, rvVars, stVars, apiVars, hwVars, lcVars, cyVars, sdVars, tgVars, gtVars, wbVars, gsVars, heVars>>

\* ---------------------------------------------------------------------------
\* The envelope gate in front of the delay
\* ---------------------------------------------------------------------------

\* Blocks gated in one run.
MaxGateBlocks == 1

\* Envelope values (millionths): zero, just below and at the threshold, and
\* full level.
EnvValues == {0, 999, 1000, 1000000}

\* Filter outputs (thousandths).
FilterValues == {-1000, 1, 1000}

\* 0.001f, in millionths.
GateThreshold == 1000

\* Mutant: the envelope is applied without the gate.
ApplyEnvelope_NoGate(f, e) == [i \in DOMAIN f |-> f[i] * e[i]]

\* process(), lines 71-79: filterBuffer after "Apply envelope".
ApplyEnvelope(f, e) ==
    [i \in DOMAIN f |-> IF e[i] < GateThreshold THEN 0 ELSE f[i] * e[i]]

GtInit ==
    /\ envBuffer = [i \in 1..BlockFrames |-> 0]
    /\ filterOut = [i \in 1..BlockFrames |-> 0]
    /\ filterBuffer = [i \in 1..BlockFrames |-> 0]
    /\ gateBlocks = 0

\* process(), lines 57-82, for one block: the envelope has produced e, the
\* filter loop f; the envelope is applied and the result handed to the delay.
AudioEngine_applyEnvelope(f, e) ==
    /\ gateBlocks < MaxGateBlocks
    /\ gateBlocks' = gateBlocks + 1
    /\ envBuffer' = e
    /\ filterOut' = f
    /\ filterBuffer' = ApplyEnvelope(f, e)
    /\ UNCHANGED <<ctlVars, eng, engVars, spVars, aoVars, rvVars, stVars, apiVars,
                   hwVars, fbVars, lcVars, cyVars, sdVars, tgVars, wbVars, gsVars, heVars>>

\* ---------------------------------------------------------------------------
\* The engine's work buffers and the block length of the sink driver
\* ---------------------------------------------------------------------------

\* process() calls in one run.
MaxEngineCalls == 5

\* DEFAULT_BUFFER_SIZE = 256, the bufferSize the engine is constructed with.
EngineBufferSize == 2

\* ReverbEffect::ReverbEffect: maxBufferSize = 1024.
ReverbMaxBufferSize == 8

\* Block lengths a sink driver can be constructed with: 128 to 1280 frames.
DriverFrames == 1..10

WbInit ==
    /\ procFrames = 0
    /\ earlyBufferSize = ReverbMaxBufferSize
    /\ reverbResized = FALSE
    /\ engineCalls = 0

\* audioLoop, line 141: engine.process(floatBuffer.data(), bufferSize) with the
\* driver's bufferSize n.  process() runs i over 0..n-1 on oscBuffer,
\* envBuffer, lfoBuffer, filterBuffer and delayBuffer without looking at
\* their size; ReverbEffect::process resizes its buffers when n exceeds them.
AudioOutput_callProcess(n) ==
    /\ engineCalls < MaxEngineCalls
    /\ engineCalls' = engineCalls + 1
    /\ procFrames' = n
    /\ reverbResized' = (n > earlyBufferSize)
    /\ earlyBufferSize' = IF n > earlyBufferSize THEN n ELSE earlyBufferSize
    /\ UNCHANGED <<ctlVars, eng, engVars, spVars, aoVars, rvVars, stVars, apiVars,
                   hwVars, fbVars, lcVars, cyVars, sdVars, tgVars, gtVars, gsVars, heVars>>

Init == CtlInit /\ EngInit /\ SpInit /\ AoInit /\ RvInit /\ StInit /\ ApiInit /\ SwInit /\ EncInit
        /\ FbInit /\ GtInit /\ WbInit /\ GsInit /\ HeInit

\* setSize calls on the two reverb implementations.
NextSize ==
    \/ \E s \in SizeInputs : Chamber_setSize(s)
    \/ \E s \in SizeInputs : Freeverb_setSize(s)

SpecSize == Init /\ [][NextSize]_vars

Next ==
    \/ \E g \in BOOLEAN : StartBegin(g)
    \/ StartLoadArg
    \/ StartCallSetter
    \/ StartFinish
    \/ EncoderTick
    \/ onShiftPress
    \/ onShiftRelease

Spec == Init /\ [][Next]_vars

\* The control surface once its encoders and buttons exist: the five encoder
\* poll threads inside handleEncoder and the shift button's thread.
NextHandlers ==
    \/ StartBegin(TRUE)
    \/ \E i \in Encoders, d \in {-1, 1} : handleEncoder_loadBank(i, d)
    \/ \E i \in Encoders : handleEncoder_readField(i)
    \/ \E i \in Encoders : handleEncoder_storeField(i)
    \/ \E i \in Encoders : handleEncoder_callSetter(i)
    \/ onShiftPress
    \/ onShiftRelease

SpecHandlers == Init /\ [][NextHandlers]_vars

\* The engine: the audio thread inside process() against control threads.
NextEngine ==
    \/ ProcGenerate
    \/ ProcReadBase
    \/ ProcModulate
    \/ ProcRestore
    \/ ProcOutput
    \/ trigger
    \/ release
    \/ \E f \in CutoffInputs : CtlSetFilterCutoff(f)
    \/ \E v \in VolumeInputs : CtlSetVolume(v)
    \/ \E d \in {0, 1} : CtlSetLfoDepth(d)

SpecEngine == Init /\ [][NextEngine]_vars

\* The sample player: the audio thread inside SamplePlayer::process against
\* a loader thread and control threads.
NextPlayer ==
    \/ \E f \in DOMAIN Mp3Files : LoadBegin(f)
    \/ LoadFinish
    \/ SamplePlayer_trigger
    \/ SamplePlayer_stop
    \/ \E b \in BOOLEAN : SamplePlayer_setLoop(b)
    \/ \E v \in {500, 1500} : SamplePlayer_setVolume(v)
    \/ SpProcessBegin
    \/ SpProcessLock
    \/ SpProcessCopy
    \/ SpProcessStore

SpecPlayer == Init /\ [][NextPlayer]_vars

\* The sample player with the audio thread calling process() block after
\* block without end, and a loader that finishes what it began.
NextPlayerLive ==
    \/ \E f \in DOMAIN Mp3Files : LoadBegin(f)
    \/ LoadFinish
    \/ SamplePlayer_trigger
    \/ SamplePlayer_stop
    \/ \E b \in BOOLEAN : SamplePlayer_setLoop(b)
    \/ \E v \in {500, 1500} : SamplePlayer_setVolume(v)
    \/ SpProcessStart(FALSE)
    \/ SpProcessLock
    \/ SpProcessCopy
    \/ SpProcessStore

SpecPlayerLive ==
    /\ Init
    /\ [][NextPlayerLive]_vars
    /\ WF_vars(SpProcessStart(FALSE))
    /\ WF_vars(SpProcessLock)
    /\ WF_vars(SpProcessCopy)
    /\ WF_vars(SpProcessStore)
    /\ WF_vars(LoadFinish)

\* The audio output: the main thread calling start() and stop() against the
\* audio thread inside audioLoop().
NextOutput ==
    \/ AudioOutput_start
    \/ \E ok \in BOOLEAN : AoOpen(ok)
    \/ \E ok \in BOOLEAN : AoHwParams(ok)
    \/ \E ok \in BOOLEAN : AoPrepare(ok)
    \/ AoLoopTest
    \/ \E written \in WriteResults, recovered \in BOOLEAN : AoWrite(written, recovered)
    \/ AoCount
    \/ AoDrain
    \/ AoClose
    \/ AudioOutput_stopBegin
    \/ AudioOutput_stopJoin
    \/ AudioOutput_destroy
    \/ getStats_loadTotal
    \/ getStats_loadUnderruns

SpecOutput == Init /\ [][NextOutput]_vars

\* The silent run: process() called block after block on an engine that is
\* constructed and never triggered.
NextSilent ==
    \/ \E phases \in [1..Len(combDelayTimes) -> InitialModPhases] :
          ReverbEffect_construct(phases)
    \/ \E stray \in StrayReads : SilentBlock(stray)

SpecSilent == Init /\ [][NextSilent]_vars

\* The frequency path: process() against the control thread's setFrequency,
\* pitch envelope selection and trigger().
NextPitch ==
    \/ ProcGenerate
    \/ ProcReadBase
    \/ ProcModulate
    \/ ProcRestore
    \/ ProcOutput
    \/ trigger
    \/ \E f \in FrequencyInputs : AudioEngine_setFrequency(f)
    \/ \E m \in PitchEnvelopeModes : AudioEngine_setPitchEnvelopeMode(m)
    \/ cyclePitchEnvelope

SpecPitch == Init /\ [][NextPitch]_vars

\* The engine's parameter interface called with arbitrary arguments.
NextSetters ==
    \/ \E v \in VolumeArgs : CtlSetVolume(v)
    \/ \E f \in FrequencyInputs : AudioEngine_setFrequency(f)
    \/ \E i \in WaveformIndices : AudioEngine_setWaveform(i)
    \/ \E i \in WaveformIndices : AudioEngine_setLfoWaveform(i)

SpecSetters == Init /\ [][NextSetters]_vars

\* The pitch-envelope button pressed again and again, from every mode.
NextCycle ==
    \/ \E m \in PitchEnvelopeModes : AudioEngine_setPitchEnvelopeMode(m)
    \/ onPitchEnvPress

SpecCycle == Init /\ [][NextCycle]_vars

\* The simulated controller's commands against the audio thread.
NextSimulated ==
    \/ ProcGenerate
    \/ ProcReadBase
    \/ ProcModulate
    \/ ProcRestore
    \/ ProcOutput
    \/ \E cmd \in {"t", "p"} : SimulatedController_processCommand(cmd)

SpecSimulated == Init /\ [][NextSimulated]_vars

\* Blocks of every mix of envelope values and filter outputs through the gate.
NextGate ==
    \E f \in [1..BlockFrames -> FilterValues], e \in [1..BlockFrames -> EnvValues] :
        AudioEngine_applyEnvelope(f, e)

SpecGate == Init /\ [][NextGate]_vars

\* The engine driven by sink drivers of every block length.
NextBuffers == \E n \in DriverFrames : AudioOutput_callProcess(n)

SpecBuffers == Init /\ [][NextBuffers]_vars

\* A switch: its poll thread against every sequence of pin levels and poll
\* gaps.
NextSwitch ==
    \/ \E r \in BOOLEAN, l \in Levels : MomentarySwitch_start(r, l)
    \/ \E l \in Levels : MomentarySwitch_pollLoop(l)
    \/ \E dt \in PollGapsMs : MomentarySwitch_sleep(dt)
    \/ MomentarySwitch_stop

SpecSwitch == Init /\ [][NextSwitch]_vars

\* The same with the poll thread scheduled: pollLoop sleeps 2 ms and polls
\* again for as long as running is set.
SpecSwitchLive ==
    /\ Init
    /\ [][NextSwitch]_vars
    /\ WF_vars(\E l \in Levels : MomentarySwitch_pollLoop(l))
    /\ WF_vars(\E dt \in PollGapsMs : MomentarySwitch_sleep(dt))

\* An encoder: update() against every sequence of CLK and DT levels.
NextEncoder ==
    \/ \E r \in BOOLEAN, c \in Levels, d \in Levels : RotaryEncoder_start(r, c, d)
    \/ \E c \in Levels, d \in Levels : RotaryEncoder_update(c, d)

SpecEncoder == Init /\ [][NextEncoder]_vars

\* The life cycle of the control surface: start(), the poll threads of one
\* encoder and of the shift button delivering events, and stop().
NextLifecycle ==
    \/ \E g \in BOOLEAN : StartBegin(g)
    \/ StartLoadArg
    \/ StartCallSetter
    \/ StartFinish
    \/ \E d \in {-1, 1} : handleEncoder(0, d)
    \/ onShiftPress
    \/ onShiftRelease
    \/ GPIOController_stopBegin
    \/ GPIOController_stopEncoders
    \/ GPIOController_stopButtons
    \/ GPIOController_stopCleanup
    \/ onShutdownPress
    \/ onShutdownPress_callback(TRUE)
    \/ onShutdownPress_system

SpecLifecycle == Init /\ [][NextLifecycle]_vars

\* ------------------------------------------------------------------------
\* Claims about the control surface
\* ------------------------------------------------------------------------

\* C1: every field of Parameters lies within its declared range in every
\* reachable state (construction, start(), any sequence of ticks).
C1_ParamsInRange ==
    /\ params.volume \in 0..1000
    /\ params.filterFreq \in 20..20000
    /\ params.filterRes \in 0..950
    /\ params.delayFeedback \in 0..950
    /\ params.reverbMix \in 0..1000
    /\ params.release \in 10..5000
    /\ params.delayTime \in 1..2000
    /\ params.reverbSize \in 0..1000
    /\ params.oscWaveform \in 0..3
    /\ params.lfoWaveform \in 0..3

\* The mapping, steps and ranges as the encoder table states them
\* (encoder 1..5, thousandths, Hz).
ClaimBankMap ==
    [A |-> <<"volume", "filterFreq", "filterRes", "delayFeedback", "reverbMix">>,
     B |-> <<"release", "delayTime", "reverbSize", "oscWaveform", "lfoWaveform">>]

ClaimStep ==
    [volume |-> 20, filterFreq |-> 50, filterRes |-> 20, delayFeedback |-> 20,
     reverbMix |-> 20, release |-> 100, delayTime |-> 50, reverbSize |-> 20]

ClaimRange ==
    [volume |-> <<0, 1000>>, filterFreq |-> <<20, 20000>>, filterRes |-> <<0, 950>>,
     delayFeedback |-> <<0, 950>>, reverbMix |-> <<0, 1000>>,
     release |-> <<10, 5000>>, delayTime |-> <<1, 2000>>, reverbSize |-> <<0, 1000>>]

ClaimEngineValue ==
    [volume |-> "volume", filterFreq |-> "filterCutoff", filterRes |-> "filterResonance",
     delayFeedback |-> "delayFeedback", reverbMix |-> "reverbDryWet",
     release |-> "releaseTime", delayTime |-> "delayTime", reverbSize |-> "reverbSize",
     oscWaveform |-> "oscWaveform", lfoWaveform |-> "lfoWaveform"]

ClaimTick(f, old, d) ==
    IF f \in {"oscWaveform", "lfoWaveform"}
    THEN (old + d) % 4
    ELSE IF old + ClaimStep[f] * d < ClaimRange[f][1] THEN ClaimRange[f][1]
         ELSE IF old + ClaimStep[f] * d > ClaimRange[f][2] THEN ClaimRange[f][2]
         ELSE old + ClaimStep[f] * d

C3_BankFollowsShift ==
    (currentBank = "B") <=> (lastShiftEvent = "press")

\* C3 witness: a press repeated while Bank B was already current.
C3_Witness ==
    /\ prevShiftEvent = "press"
    /\ lastShiftEvent = "press"
    /\ currentBank = "B"

\* C4: once start() has returned, the engine holds for every parameter the
\* value the Parameters snapshot holds, for every interleaving of the
\* encoder threads with start().
C4_EngineMatchesParams ==
    startPc = 10 =>
        \A f \in ParamFields : eng[ClaimEngineValue[f]] = params[f]

\* ------------------------------------------------------------------------
\* Claims about the engine
\* ------------------------------------------------------------------------

\* C5: a cutoff written with setFilterCutoff is the base cutoff of every
\* process() block that starts after the write returned: once a block that
\* began after the latest write has read its base cutoff, that base cutoff
\* is the written value.
C5_CutoffWriteNotLost ==
    (procPc \in {"mod", "restore", "out"} /\ ~writesThisBlock)
        => baseCutoff = cutoffWritten

\* C6: control threads write parameter carriers only; no DSP-state object is
\* written by a control-thread operation while process() is executing.
C6_NoControlWriteDuringProcess ==
    lastCtlWrite.during => lastCtlWrite.objs \subseteq Carriers

\* C8: every sample process() writes lies in [-1, 1] and the left and right
\* samples of each frame are equal.
C8_OutputBounded ==
    /\ \A k \in DOMAIN output : output[k] \in -1000..1000
    /\ \A i \in 1..(Len(output) \div 2) : output[2 * i - 1] = output[2 * i]

\* C8 witness: a block written at the default volume 0.7 whose first frame
\* was clamped at +1 and whose second frame was clamped at -1.
C8_Witness ==
    /\ procPc = "idle"
    /\ ctlOps = 0
    /\ Len(output) = 2 * BlockFrames
    /\ output[1] = 1000
    /\ output[3] = -1000

\* ------------------------------------------------------------------------
\* Claims about the sample player
\* ------------------------------------------------------------------------

\* C7: the audio thread never waits for a lock held by a loader thread:
\* it is never at the lock acquisition of SamplePlayer::process while
\* loadMP3 holds sampleMutex.
C7_AudioNeverWaitsForLoader ==
    ~(spPc = "lock" /\ sampleMutex = "loader")

\* ------------------------------------------------------------------------
\* Claims about the audio output
\* ------------------------------------------------------------------------

\* C10: every sink write that fails or is short (fewer frames written than
\* the block size) increments the underrun counter by exactly one and is
\* followed by one recover attempt before the loop goes on to the next block.
C10_BadWriteCountedAndRecovered ==
    (aoPc = "count" /\ frames < SinkFrames)
        => (underruns = underBefore + 1 /\ recoverCalls = recBefore + 1)

\* ------------------------------------------------------------------------
\* Claims about the silent start
\* ------------------------------------------------------------------------

\* C9: for an engine that has been constructed and never triggered, every
\* output sample of the first 10 process() blocks is exactly 0.
C9_SilentStart ==
    silentBlocks <= 10 => \A k \in DOMAIN silentOut : silentOut[k] = 0

\* C11: start() returns false whenever the sink cannot be opened, its
\* hardware parameters cannot be negotiated or it cannot be prepared: once
\* the device setup of the loop that start() launched has failed, the value
\* start() returned is false.
C11_StartReportsSetupFailure ==
    setupResult = "failed" => startResult = "false"

\* C12: whenever stop() or the destructor has returned, the audio thread has
\* been joined, and no joinable thread object is ever destroyed or
\* overwritten (which would call std::terminate).
C12_StopJoinsAudioThread ==
    /\ stopReturned => audioThread = "none"
    /\ ~aoTerminated

\* ------------------------------------------------------------------------
\* Claims about the life cycle of the control surface
\* ------------------------------------------------------------------------

\* C13: once stop() has released the GPIO lines no encoder or switch poll
\* thread is alive (all have been joined), so none reads a pin or invokes a
\* callback afterwards; and a stop() called while the control surface is not
\* running (a second stop(), or one without a start()) changes nothing.
C13_ReleaseAfterJoin ==
    /\ [](gpioReleased => (~encodersUp /\ ~buttonsUp))
    /\ [][(ctlStops' # ctlStops /\ ~ctlRunning)
            => UNCHANGED <<ctlVars, eng, ctlStopPc, gpioReleased>>]_vars

\* C13 witness: the threads ran and delivered events, stop() released the
\* GPIO lines, and a second stop() has been called.
C13_Witness ==
    /\ gpioReleased
    /\ ticks > 0
    /\ lastShiftEvent = "press"
    /\ ctlStops = 2
    /\ ctlStopPc = "idle"

\* ------------------------------------------------------------------------
\* Claims about the engine's frequency path and parameter interface
\* ------------------------------------------------------------------------

\* C14: in the first block generated after trigger() the oscillator's
\* frequency starts at half the base frequency when the pitch envelope mode
\* is Up and at twice the base frequency when it is Down.
C14_PitchEnvelopeRamp ==
    triggerFrame.valid =>
        /\ triggerFrame.mode = "Up" => 2 * triggerFrame.first = triggerFrame.f0
        /\ triggerFrame.mode = "Down" => triggerFrame.first = 2 * triggerFrame.f0

\* C15: after setWaveform(index) / setLfoWaveform(index) the selected
\* waveform is index mod 4, a value in 0..3, for every integer index.
C15_WaveformIndexMod4 ==
    /\ lastCall.op = "setWaveform" =>
          (eng.oscWaveform \in 0..3 /\ eng.oscWaveform = lastCall.arg % 4)
    /\ lastCall.op = "setLfoWaveform" =>
          (eng.lfoWaveform \in 0..3 /\ eng.lfoWaveform = lastCall.arg % 4)

\* C16: getVolume() after setVolume(v) is v clamped to [0, 1] and
\* getFrequency() after setFrequency(f) is f clamped to [20, 20000] Hz.
C16_SetThenGet ==
    /\ lastCall.op = "setVolume" =>
          getVolume(eng) = (IF lastCall.arg < 0 THEN 0
                            ELSE IF lastCall.arg > 1000 THEN 1000 ELSE lastCall.arg)
    /\ lastCall.op = "setFrequency" =>
          getFrequency(baseFrequency) =
              (IF lastCall.arg < 20 THEN 20
               ELSE IF lastCall.arg > 20000 THEN 20000 ELSE lastCall.arg)

\* C16 witness: an out-of-range volume was written and clamped, after an
\* out-of-range frequency was written and clamped.
C16_Witness ==
    /\ lastCall = [op |-> "setVolume", arg |-> 1500]
    /\ getVolume(eng) = 1000
    /\ getFrequency(baseFrequency) = 20

\* ------------------------------------------------------------------------
\* Claims about the control primitives
\* ------------------------------------------------------------------------

\* C17: a poll emits a press or release event only when the pin has read the
\* same level for at least DEBOUNCE_MS, and a release event only when at
\* least MIN_PRESS_MS have passed since the press event.
C17_DebouncedEvents ==
    /\ swEmitted # "none" => swRunMs >= DEBOUNCE_MS
    /\ swEmitted = "release" => swPressMs >= MIN_PRESS_MS

\* C17 witness: a release is emitted for a button that was let go before the
\* minimum press time had passed.
C17_Witness ==
    /\ swEmitted = "release"
    /\ swLetGoEarly
    /\ swRunMs >= DEBOUNCE_MS

\* C18: the events of a switch alternate and begin with a press, and so do
\* the engine calls of the trigger button: a press event (engine.trigger())
\* follows no event or a release, a release event (engine.release()) follows
\* a press.
C18_EventsAlternate ==
    /\ swEmitted = "press" => swLastEvent \in {"none", "release"}
    /\ swEmitted = "release" => swLastEvent = "press"
    /\ swEmitted = "press" => envStage = "Attack"
    /\ pressed <=> (IF swEmitted # "none" THEN swEmitted = "press"
                    ELSE swLastEvent = "press")

\* C18 witness: a second press is emitted after a press and a release.
C18_Witness ==
    /\ swEmitted = "press"
    /\ swLastEvent = "release"

\* C19: while the poll thread runs the pin does not stay HIGH for ever with
\* the press still registered (the release is emitted), and it does not stay
\* LOW for ever with no press registered (the press is emitted).
C19_HeldLevelNotMissed ==
    /\ []<>(swRunning # "running" \/ swRead # 1 \/ ~pressed)
    /\ []<>(swRunning # "running" \/ swRead # 0 \/ pressed)

\* C19 witness: the button was let go early, the pin stayed HIGH and the
\* release has been emitted once the minimum press time had passed.
C19_Witness ==
    /\ swRunning = "running"
    /\ swEmitted = "release"
    /\ swLetGoEarly
    /\ swPressMs >= MIN_PRESS_MS
    /\ swRead = 1

RECURSIVE SumOf(_)
SumOf(seq) == IF seq = <<>> THEN 0 ELSE Head(seq) + SumOf(Tail(seq))

C21_TriggerRestarts ==
    spRestart # "lost"

\* C23: while no sample is loaded the player is not playing, whatever
\* trigger() calls are made, and every process() call made while no sample is
\* loaded or the player is not playing writes a whole block of zeros.
C23_SilentWithoutSample ==
    /\ [](sampleData = <<>> => ~playing)
    /\ [][(spBlocks' # spBlocks /\ (sampleData = <<>> \/ ~playing)) =>
            /\ Len(spOut') = 2 * SpFrames
            /\ \A k \in 1..(2 * SpFrames) : spOut'[k] = 0
            /\ spPc' = "idle"]_vars

\* C23 witness: loading failed, trigger() was called and refused, and a
\* block of zeros has been produced.
C23_Witness ==
    /\ sampleData = <<>>
    /\ loadResult = "false"
    /\ spRestart = "refused"
    /\ spBlocks > 0
    /\ spOut = <<0, 0, 0, 0>>

\* Frames of the sample left at position pos.
FramesLeft(pos) == IF pos >= Len(sampleData) THEN 0 ELSE (Len(sampleData) - pos) \div 2

\* C22: with looping disabled a process() call whose playhead reaches the
\* end of the sample clears playing and fills the rest of its block with
\* zeros, every block produced while the player is not playing is zeros, and
\* a playing sample eventually stops; with looping enabled a playhead at the
\* end wraps to 0 and playing stays set.
C22_StopsOrLoopsAtEnd ==
    /\ [][(spPc = "copy" /\ spPc' = "store" /\ ~loop /\ FramesLeft(spPos) < SpFrames) =>
            /\ playing' = FALSE
            /\ \A k \in 1..(SpFrames * 2) :
                  spOut'[k] = IF k <= 2 * FramesLeft(spPos)
                              THEN Gain(sampleData[spPos + k], spVol) ELSE 0]_vars
    /\ [][(spPc = "copy" /\ spPc' = "store" /\ loop /\ spPos >= Len(sampleData)) =>
            /\ playing' = playing
            /\ spOut'[1] = Gain(sampleData[1], spVol)
            /\ spPos' <= Len(sampleData)]_vars
    /\ [][(spPc = "idle" /\ spOut' # spOut /\ ~playing) =>
            spOut' = Silence(SpFrames * 2)]_vars
    /\ []<>(loop \/ ~playing)

\* C22 witness: the sample ended in the middle of a block with looping
\* disabled: the last frame, then zeros, and playing cleared.
C22_Witness ==
    /\ spPc = "store"
    /\ ~loop
    /\ ~playing
    /\ spOut = <<500, 600, 0, 0>>

\* C24: whatever size setSize is given, the feedback gain of the comb filters
\* stays strictly below 0.98 in the chamber and in the Freeverb variant.
C24_FeedbackBelowLimit == chamberFeedback < 980 /\ feedback < 980

\* The engine after start() has called its first k setters with the defaults.
RECURSIVE DefaultsApplied(_)
DefaultsApplied(k) ==
    IF k = 0 THEN EngineDefault
    ELSE CallSetter(DefaultsApplied(k - 1), EngineSetterOf(StartApplyOrder[k]),
                    ParametersDefault[StartApplyOrder[k]])

\* C25: when the GPIO initialisation fails, start() creates no encoder and no
\* button, still writes the default parameters to the engine and sets the
\* running flag, and a later stop() runs to its end without joining a thread.
C25_StartWithoutGPIO ==
    /\ [](hasGPIO = "no" =>
            /\ ~encodersUp /\ ~buttonsUp
            /\ joined = 0
            /\ startPc = 10 => eng = DefaultsApplied(Len(StartApplyOrder)))
    /\ [][hasGPIO = "no" /\ startPc = 9 /\ startPc' = 10 => ctlRunning']_vars
    /\ [][hasGPIO = "no" /\ ctlStopPc # "idle" /\ ctlStopPc' = "idle"
            => ~ctlRunning' /\ joined' = 0 /\ gpioReleased']_vars

C25_Witness ==
    /\ hasGPIO = "no"
    /\ startPc = 10
    /\ eng = DefaultsApplied(8)
    /\ eng # EngineDefault
    /\ ~ctlRunning
    /\ ctlStopPc = "idle"
    /\ gpioReleased
    /\ joined = 0


\* C26: cyclePitchEnvelope steps None -> Up -> Down -> None, so three calls in
\* a row bring back the mode they started from, and each call returns the
\* name ("none", "up", "down") of the mode it stored.
C26_CycleOfThree ==
    LET n == Len(cycleModes)
    IN /\ cycleModes[n] = pitchEnvMode
       /\ n >= 2 =>
            /\ <<cycleModes[n - 1], cycleModes[n]>> \in
                  {<<"None", "Up">>, <<"Up", "Down">>, <<"Down", "None">>}
            /\ returnedName = CASE pitchEnvMode = "None" -> "none"
                                [] pitchEnvMode = "Up"   -> "up"
                                [] pitchEnvMode = "Down" -> "down"
       /\ n >= 4 => cycleModes[n] = cycleModes[n - 3]

C26_Witness ==
    /\ cycleModes = <<"Down", "None", "Up", "Down">>
    /\ returnedName = "down"


\* C27: once stop() has cleared the running flag of a running output, the
\* audio loop begins no further block (it finishes the one in progress and
\* leaves at its next test), the sink is drained before it is closed, and
\* stop() returns only when the audio thread has finished.
C27_StopDrainsThenJoins ==
    /\ [][stopPc = "join" /\ aoPc = "test" /\ aoPc' # "test" => aoPc' = "drain"]_vars
    /\ [][stopPc = "join" /\ aoPc # "write" => aoPc' # "write"]_vars
    /\ [][aoPc = "close" /\ aoPc' # "close"
            => pcm = "drained" /\ pcm' = "closed" /\ audioThread' = "finished"]_vars
    /\ [][stopPc = "join" /\ stopPc' = "idle"
            => audioThread = "finished" /\ aoPc = "off" /\ pcm = "closed"]_vars

C27_Witness ==
    /\ setupResult = "ok"
    /\ totalBuffers >= 1
    /\ stopReturned
    /\ stopPc = "idle"
    /\ audioThread = "none"
    /\ pcm = "closed"
    /\ ~aoRunning


\* C28: on a press of the shutdown button the GPIO lines are released and the
\* shutdown callback is called before the operating system's shutdown
\* command is issued, and the callback is called once for each press.
C28_CleanupBeforeShutdown ==
    /\ commandsIssued > 0 => releasedAtCommand
    /\ shutdownPc = "idle" => callbackCalls = shutdownPresses
    /\ commandsIssued <= callbackCalls


\* C29: the 't' command of the simulated controller toggles: the first one
\* calls engine.trigger, and each later one calls the other of trigger and
\* release than the one before it, whenever it is given.
C29_ToggleAlternates ==
    \A k \in 1..Len(toggleCalls) :
        toggleCalls[k] = (IF k % 2 = 1 THEN "trigger" ELSE "release")


\* C30: for every sample of a block, the delay is given exactly 0 when the
\* envelope value is below 0.001 and the filtered sample times the envelope
\* value otherwise; a block whose envelope stays below 0.001 reaches the
\* delay as zeros only.
C30_GateBeforeDelay ==
    /\ \A i \in 1..BlockFrames :
          /\ envBuffer[i] < 1000 => filterBuffer[i] = 0
          /\ envBuffer[i] >= 1000 => filterBuffer[i] = filterOut[i] * envBuffer[i]
    /\ (\A i \in 1..BlockFrames : envBuffer[i] < 1000)
          => filterBuffer = [i \in 1..BlockFrames |-> 0]

C30_Witness ==
    /\ gateBlocks = 1
    /\ envBuffer = <<999, 1000>>
    /\ filterOut = <<1000, -1000>>
    /\ filterBuffer = <<0, -1000000>>


\* C31: a loadMP3 that fails (the file does not open or no frame decodes)
\* returns false and leaves the sample data, the playing flag and the
\* playback position as they were; one that succeeds returns true, replaces
\* the sample data by the file's and sets the playback position to 0.
C31_FailedLoadKeepsSample ==
    /\ [][loadFile # 0 /\ loadFile' = 0 /\ loadResult' = "false"
            => /\ ~Mp3Files[loadFile].opens \/ Mp3Files[loadFile].pcm = <<>>
               /\ UNCHANGED <<sampleData, playing, playbackPosition>>]_vars
    /\ [][loadFile # 0 /\ loadFile' = 0 /\ loadResult' = "true"
            => /\ Mp3Files[loadFile].opens /\ Mp3Files[loadFile].pcm # <<>>
               /\ \E oob \in OutOfBounds :
                     sampleData' = LoadedData(Mp3Files[loadFile], oob)
               /\ playbackPosition' = 0
               /\ UNCHANGED playing]_vars
    /\ [][loadFile # 0 /\ loadFile' = 0 => loadResult' \in {"true", "false"}]_vars

C31_Witness ==
    /\ loadResult = "false"
    /\ loadFile = 0
    /\ sampleData = <<100, 200, 300, 400, 500, 600>>
    /\ playing
    /\ playbackPosition = 4


\* C32: whatever the write position and the modulation offset of a comb
\* filter, the two indices its next process() call reads lie inside the
\* buffer, and so does the write position.
C32_CombReadsInsideBuffer ==
    \A j \in 1..Len(combFilters) :
        LET cf == combFilters[j]
            inside == 0..(Len(cf.buffer) - 1)
        IN /\ CombReadPosInt(cf) \in inside
           /\ CombReadPosNext(cf) \in inside
           /\ cf.writePos \in inside


\* C33: resample reads input only below input.size(), also for the last
\* output frames, and writes floor(inputFrames * outputRate / inputRate)
\* frames: stated for the file a load in progress is about to resample.
C33_ResampleReadsInsideInput ==
    (loadFile # 0 /\ Mp3Files[loadFile].pcm # <<>>
        /\ Mp3Files[loadFile].hz # PlayerRate) =>
        LET input == Decoded(Mp3Files[loadFile])
            hz == Mp3Files[loadFile].hz
        IN /\ \A idx \in resampleReads(input, hz, PlayerRate) : idx < Len(input)
           /\ \A oob \in OutOfBounds :
                 Len(resample(input, hz, PlayerRate, oob))
                    = 2 * (((Len(input) \div 2) * PlayerRate) \div hz)


\* C34: for every block length the sink driver passes, also one that differs
\* from the engine's bufferSize, process() indexes its work buffers inside
\* their allocated size (its highest index numFrames - 1 is below the size)
\* and no buffer is resized.
C34_WorkBuffersFitEveryBlock ==
    /\ procFrames - 1 < EngineBufferSize
    /\ ~reverbResized


\* C35: every Stats value getStats returns, whenever it is called, has
\* underruns <= totalBuffers, and neither counter ever decreases.
C35_StatsConsistent ==
    /\ [](stats.returned => stats.underruns <= stats.totalBuffers)
    /\ [][totalBuffers' >= totalBuffers /\ underruns' >= underruns]_vars


\* C38: an update() emits a tick only when the CLK level it reads differs
\* from the level of the previous read of the CLK pin; the first update()
\* after start() follows a read by start(), whatever the levels then.
C38_TickOnlyOnRealEdge ==
    [][(encPolls' # encPolls /\ encEmitted' # 0) =>
            /\ encPinRead # -1
            /\ encPinRead # encPinRead']_vars


RECURSIVE ApplyTicks(_, _, _)
\* The value of a field after the given ticks, applied one after the other.
ApplyTicks(field, value, dirs) ==
    IF dirs = <<>> THEN value
    ELSE ApplyTicks(field, TickValue(field, value, Head(dirs)), Tail(dirs))

\* The ticks routed to a field whose store has been done: all of them, but
\* for the last while its handler has not stored yet.
StoredTicks(field) ==
    IF \E i \in Encoders : hePc[i] \in {"bank", "value"} /\ heField(i) = field
    THEN SubSeq(heLog[field], 1, Len(heLog[field]) - 1)
    ELSE heLog[field]

\* C36: with the five encoder threads and the shift thread interleaved, no
\* Parameters field is stored to by two threads, and every field holds its
\* default stepped by the ticks routed to it, in their order, none lost.
C36_NoEncoderTickLost ==
    \A f \in ParamFields :
        /\ Cardinality(heWriters[f]) <= 1
        /\ params[f] = ApplyTicks(f, ParametersDefault[f], StoredTicks(f))

\* C36 witness: two encoder threads are inside handleEncoder at once, one
\* entered in Bank A and one in Bank B, and one of them has stored.
C36_Witness ==
    /\ hePc[0] = "stored"
    /\ hePc[1] = "value"
    /\ heBank[0] = "A"
    /\ heBank[1] = "B"
    /\ params["volume"] = 720


RECURSIVE CopyReads(_, _, _, _)
\* The zero-based indices of sampleData the frame loop of process() reads
\* from the given frame and position on.
CopyReads(frame, pos, data, looping) ==
    IF frame = SpFrames THEN {}
    ELSE IF pos >= Len(data) /\ ~looping THEN {}
         ELSE LET p == IF pos >= Len(data) THEN 0 ELSE pos
              IN  {p, p + 1} \cup CopyReads(frame + 1, p + 2, data, looping)

\* C37: whatever the interleaving of loadMP3, trigger, stop and process, the
\* playback position is even and at most the length of the sample data, and
\* the frame loop of process() reads sampleData only inside it.
C37_PositionInsideSample ==
    /\ playbackPosition % 2 = 0
    /\ playbackPosition <= Len(sampleData)
    /\ spPc = "copy" =>
          \A k \in CopyReads(0, spPos, sampleData, loop) : k >= 0 /\ k < Len(sampleData)

\* C37 witness: the three-frame sample was played to its end by a block
\* that began on its last frame; the position rests on the length.
C37_Witness ==
    /\ Len(sampleData) = 6
    /\ playbackPosition = 6
    /\ ~playing
    /\ spPc = "idle"
    /\ spBlocks >= 2


====
